---- MODULE Spec2Model ----
(***************************************************************************)
(* A model of the two document extractors of gautamsarup/Tools:            *)
(*   src/Pdf extractor/pdf_ocr_extractor.py   (PDFOCRExtractor)            *)
(*   src/Powerpoint Extractor/ppt_extractor.py (PowerPointExtractor)       *)
(*                                                                         *)
(* Text is a sequence of one-character strings, so that strip(), join()    *)
(* and ljust() are computed and not assumed.  The document libraries, the  *)
(* OCR engine and the chat-completion endpoint are the environment: what   *)
(* they return, and whether they raise, is chosen nondeterministically at  *)
(* the call.                                                               *)
(***************************************************************************)
EXTENDS Integers, Sequences, FiniteSets, TLC

VARIABLES
    tool,     \* which entry point runs: "pdf", "pptx", "format_tables", "sheet_name"
    pc,       \* the position of the running call
    args,     \* the arguments of the call
    doc,      \* the document on disk: its pages (PDF) or its slides (PPTX)
    result,   \* the `result` local of the entry point; what it returns at pc = "done"
    pass,     \* the `result` local of the running PDF backend pass
    idx,      \* the loop position: page index, or index into slides_to_process
    todo,     \* slides_to_process (PPTX)
    cur,      \* the slide being processed (PPTX): slide_data, text_parts, tables, images
    handles,  \* the document handles that are open
    raised,   \* the exception that left the entry point ("none" when none did)
    log       \* the external calls made and the failures logged, in order

vars == <<tool, pc, args, doc, result, pass, idx, todo, cur, handles, raised, log>>

----------------------------------------------------------------------------
(* Bounds of the model *)

MaxPages == 2
MaxSlides == 2
MaxRequest == 2

----------------------------------------------------------------------------
(* Text *)


IsSpace(c) == c \in {" ", "\n"}

RECURSIVE LStrip(_)
LStrip(s) == IF s = <<>> THEN s
             ELSE IF IsSpace(Head(s)) THEN LStrip(Tail(s)) ELSE s

RECURSIVE RStrip(_)
RStrip(s) == IF s = <<>> THEN s
             ELSE IF IsSpace(s[Len(s)]) THEN RStrip(SubSeq(s, 1, Len(s) - 1)) ELSE s

\* str.strip()
Strip(s) == RStrip(LStrip(s))

RECURSIVE Join(_, _)
\* sep.join(parts)
Join(sep, parts) ==
    IF parts = <<>> THEN <<>>
    ELSE IF Len(parts) = 1 THEN parts[1]
    ELSE parts[1] \o sep \o Join(sep, Tail(parts))

RECURSIVE SelectSeqOf(_, _)
\* [x for x in s if x is truthy]: the non-empty elements of s, in order
SelectSeqOf(s, empty) ==
    IF s = <<>> THEN <<>>
    ELSE IF Head(s) = empty THEN SelectSeqOf(Tail(s), empty)
    ELSE <<Head(s)>> \o SelectSeqOf(Tail(s), empty)

----------------------------------------------------------------------------
(* What the environment can return *)

\* An outcome of a library call: it raises, or it returns a value.
Raises == [raise |-> TRUE, val |-> <<>>]
Returns(v) == [raise |-> FALSE, val |-> v]

\* What pytesseract.image_to_string can return
OcrTexts == {<<>>, <<"x">>}
OcrOutcomes == {Raises} \cup {Returns(t) : t \in OcrTexts}

\* A cell of a table: a string, or None (pdfplumber's empty cell)
NoneCell == [isNone |-> TRUE, s |-> <<>>]
StrCell(s) == [isNone |-> FALSE, s |-> s]

EmptyTable == <<>>
Table1 == << <<StrCell(<<"c">>)>> >>
Table2 == << <<StrCell(<<"a", "b">>), NoneCell>>, <<StrCell(<<>>)>> >>

----------------------------------------------------------------------------
(* The PDF documents *)

\* A text block of PyMuPDF's page.get_text("blocks"): (x0, y0, x1, y1, text, ...)
Block(x, y, t) == [x0 |-> x, y0 |-> y, text |-> t]

\* A page: the native text each backend extracts, PyMuPDF's blocks, whether it
\* holds images, and what pdfplumber's extract_tables returns for it.
Page(t, mu, bl, img, tb) ==
    [text |-> t, mutext |-> mu, blocks |-> bl, images |-> img, tables |-> tb]

PageKinds ==
    { Page(<<"a">>, <<"a">>, <<Block(0, 0, <<"a">>)>>, FALSE, <<>>),
      Page(<<>>, <<>>, <<>>, TRUE, <<>>),
      Page(<<" ">>, <<"\n">>, <<Block(0, 0, <<" ">>)>>, FALSE, <<>>),
      Page(<<"a">>, <<"b", "\n", "a">>,
           <<Block(1, 0, <<"a">>), Block(0, 0, <<"b", " ">>)>>, TRUE,
           <<EmptyTable, Table2>>),
      Page(<<>>, <<"a">>, <<Block(0, 1, <<"a">>)>>, TRUE, <<Table1>>) }

RECURSIVE SeqsUpTo(_, _)
\* the sequences over S of length at most n
SeqsUpTo(S, n) ==
    IF n = 0 THEN {<<>>}
    ELSE LET shorter == SeqsUpTo(S, n - 1)
         IN shorter \cup {Append(s, x) : s \in {t \in shorter : Len(t) = n - 1}, x \in S}

PdfDocs == SeqsUpTo(PageKinds, MaxPages)

\* A page that contains only images: no text object for either backend, no table
ImageOnlyPage(p) ==
    p.images /\ p.text = <<>> /\ p.mutext = <<>> /\ p.blocks = <<>> /\ p.tables = <<>>

----------------------------------------------------------------------------
(* extract_text_from_pdf and its two backend passes *)

PdfResult(method) ==
    [file_path |-> "in.pdf", pages |-> <<>>, total_pages |-> 0,
     extraction_method |-> method, tables_found |-> 0, errors |-> <<>>]

PageData(n) ==
    [page_number |-> n, text |-> <<>>, tables |-> <<>>,
     extraction_method |-> "native", ocr_used |-> FALSE]

\* f"OCR failed on page {page_num}: {e}"
OcrFailedMsg(n) == <<"OCR failed on page", n>>

\* str(e) of the exception a library call raised
ExcMsg(what) == <<"exception", what>>

\* MinimalContent that looks at the first page only
MinimalContentFirstPage(res) ==
    \/ res.pages = <<>>
    \/ Strip(res.pages[1].text) = <<>>

\* not result['pages'] or all(not page.get('text', '').strip() for page in result['pages'])
MinimalContent(res) ==
    \/ res.pages = <<>>
    \/ \A i \in 1..Len(res.pages) : Strip(res.pages[i].text) = <<>>

\* TextBranch with OCR preferred over the native text whenever OCR is enabled
TextBranchOcrFirst(pd, text, use_ocr, ocr) ==
    IF use_ocr /\ ~ocr.raise
    THEN [pd EXCEPT !.text = ocr.val, !.extraction_method = "ocr", !.ocr_used = TRUE]
    ELSE [pd EXCEPT !.text = text, !.extraction_method = "native"]

\* TextBranch with the method set to 'ocr' before the OCR call is made, so that
\* it stays set when the call raises
TextBranchMethodSetFirst(pd, text, use_ocr, ocr) ==
    IF Strip(text) # <<>>
    THEN [pd EXCEPT !.text = text, !.extraction_method = "native"]
    ELSE IF use_ocr /\ ~ocr.raise
    THEN [pd EXCEPT !.text = ocr.val, !.extraction_method = "ocr", !.ocr_used = TRUE]
    ELSE IF use_ocr
    THEN [pd EXCEPT !.extraction_method = "ocr"]
    ELSE pd

\* The text branch of a page of either pass: native text if it is not blank,
\* else OCR if enabled; an OCR exception is caught and recorded.
TextBranch(pd, text, use_ocr, ocr) ==
    IF Strip(text) # <<>>
    THEN [pd EXCEPT !.text = text, !.extraction_method = "native"]
    ELSE IF use_ocr /\ ~ocr.raise
    THEN [pd EXCEPT !.text = ocr.val, !.extraction_method = "ocr", !.ocr_used = TRUE]
    ELSE pd

OcrTried(text, use_ocr) == Strip(text) = <<>> /\ use_ocr

\* ExtractTablesFromPage without the check that discards an empty table
ExtractTablesFromPageKeepEmpty(page, tab) ==
    IF tab.raise THEN <<>> ELSE tab.val

\* _extract_tables_from_page: the non-empty tables; an exception gives none
ExtractTablesFromPage(page, tab) ==
    IF tab.raise THEN <<>> ELSE SelectSeqOf(tab.val, EmptyTable)

\* ExtractTablesFromPymupdfPage returning the tables of the page
ExtractTablesFromPymupdfPageFound(page) == SelectSeqOf(page.tables, EmptyTable)

\* _extract_tables_from_pymupdf_page: a placeholder
ExtractTablesFromPymupdfPage(page) == <<>>

\* One iteration of a pass's page loop, after the native text was read
PageIteration(res, n, text, use_ocr, ocr, preserve_tables, tables) ==
    LET pd1 == TextBranch(PageData(n), text, use_ocr, ocr)
        pd2 == IF preserve_tables THEN [pd1 EXCEPT !.tables = tables] ELSE pd1
        failed == OcrTried(text, use_ocr) /\ ocr.raise
    IN [res EXCEPT
          !.errors = IF failed THEN Append(@, OcrFailedMsg(n)) ELSE @,
          !.tables_found = IF preserve_tables THEN @ + Len(tables) ELSE @,
          !.pages = Append(@, pd2)]

RECURSIVE InsertBlock(_, _)
InsertBlock(b, s) ==
    IF s = <<>> THEN <<b>>
    ELSE IF \/ Head(s).y0 > b.y0
            \/ (Head(s).y0 = b.y0 /\ Head(s).x0 > b.x0)
         THEN <<b>> \o s
         ELSE <<Head(s)>> \o InsertBlock(b, Tail(s))

RECURSIVE SortBlocks(_)
\* blocks.sort(key=lambda b: (b[1], b[0])), a stable sort
SortBlocks(s) ==
    IF s = <<>> THEN <<>>
    ELSE InsertBlock(s[Len(s)], SortBlocks(SubSeq(s, 1, Len(s) - 1)))

RECURSIVE BlockTexts(_)
BlockTexts(s) ==
    IF s = <<>> THEN <<>>
    ELSE IF Strip(Head(s).text) # <<>>
         THEN <<Strip(Head(s).text)>> \o BlockTexts(Tail(s))
         ELSE BlockTexts(Tail(s))

\* _extract_text_with_column_awareness
ExtractTextWithColumnAwareness(page) ==
    Join(<<"\n">>, BlockTexts(SortBlocks(page.blocks)))

\* An entry of the log: a call on a library or on one of the passes, the page or
\* slide it was made for (0: the document), what was passed or returned, and
\* whether it raised.
Ev(what, unit, arg, failed) == [ev |-> what, unit |-> unit, arg |-> arg, failed |-> failed]

PdfIdle ==
    /\ pass = PdfResult("none")
    /\ idx = 0
    /\ todo = <<>>
    /\ cur = <<>>
    /\ handles = {}
    /\ raised = "none"
    /\ log = <<>>

PdfInit ==
    /\ tool = "pdf"
    /\ pc = "start"
    /\ args \in [exists : BOOLEAN, use_ocr : BOOLEAN, preserve_tables : BOOLEAN,
                 handle_multi_column : BOOLEAN]
    /\ doc \in PdfDocs
    /\ result = PdfResult("none")
    /\ PdfIdle

\* extract_text_from_pdf, to the start of the first pass
PdfCall ==
    /\ tool = "pdf" /\ pc = "start"
    /\ IF ~args.exists
       THEN /\ raised' = "FileNotFoundError"
            /\ pc' = "raised"
            /\ UNCHANGED result
       ELSE /\ result' = PdfResult("unknown")
            /\ pc' = "plumber_open"
            /\ UNCHANGED raised
    /\ UNCHANGED <<tool, args, doc, pass, idx, todo, cur, handles, log>>

\* The except clause of extract_text_from_pdf: the message is appended to the
\* `result` the entry point holds at that moment, which is then returned.
PdfCatch(what) ==
    /\ result' = [result EXCEPT !.errors = Append(@, ExcMsg(what))]
    /\ pc' = "done"

\* The log entries of one page of a pass: the native text read, the OCR call if
\* one was made, the table extraction if one was made
PageLog(unit, reader, tried, ocr, tabled, tabOk) ==
    <<Ev(reader, unit, <<>>, FALSE)>>
    \o (IF tried THEN <<Ev("ocr", unit, ocr.val, ocr.raise)>> ELSE <<>>)
    \o (IF tabled THEN <<Ev("extract_tables", unit, <<>>, ~tabOk)>> ELSE <<>>)

\* pdfplumber.open(pdf_path)
PlumberOpen ==
    /\ tool = "pdf" /\ pc = "plumber_open"
    /\ \E ok \in BOOLEAN :
         /\ IF ok
            THEN /\ pass' = [PdfResult("pdfplumber") EXCEPT !.total_pages = Len(doc)]
                 /\ handles' = handles \cup {"pdfplumber"}
                 /\ idx' = 1
                 /\ pc' = "plumber_pages"
                 /\ UNCHANGED result
            ELSE /\ PdfCatch("pdfplumber.open")
                 /\ UNCHANGED <<pass, handles, idx>>
         /\ log' = Append(log, Ev("pdfplumber.open", 0, <<>>, ~ok))
    /\ UNCHANGED <<tool, args, doc, todo, cur, raised>>

\* One page of _extract_with_pdfplumber
PlumberPage ==
    /\ tool = "pdf" /\ pc = "plumber_pages" /\ idx <= Len(doc)
    /\ LET page == doc[idx] IN
       \E native \in BOOLEAN, ocr \in OcrOutcomes, tabOk \in BOOLEAN :
         IF ~native
         THEN \* page.extract_text() raises: the with block closes the handle,
              \* the pass's own result is dropped with its frame
              /\ PdfCatch("extract_text")
              /\ handles' = handles \ {"pdfplumber"}
              /\ log' = Append(log, Ev("extract_text", idx, <<>>, TRUE))
              /\ UNCHANGED <<pass, idx>>
         ELSE LET tab == IF tabOk THEN Returns(page.tables) ELSE Raises
                  tables == ExtractTablesFromPage(page, tab)
              IN /\ pass' = PageIteration(pass, idx, page.text, args.use_ocr, ocr,
                                          args.preserve_tables, tables)
                 /\ log' = log \o PageLog(idx, "extract_text",
                                          OcrTried(page.text, args.use_ocr), ocr,
                                          args.preserve_tables, tabOk)
                 /\ idx' = idx + 1
                 /\ UNCHANGED <<result, pc, handles>>
    /\ UNCHANGED <<tool, args, doc, todo, cur, raised>>

\* FallBack taken as soon as one page of the primary pass has no text
FallBackAnyPageBlank(res) ==
    \/ res.pages = <<>>
    \/ \E i \in 1..Len(res.pages) : Strip(res.pages[i].text) = <<>>

\* The secondary pass is started when the primary pass returned minimal content
FallBack(res) == MinimalContent(res)

\* _extract_with_pdfplumber returns; extract_text_from_pdf decides on the fallback
PlumberReturn ==
    /\ tool = "pdf" /\ pc = "plumber_pages" /\ idx > Len(doc)
    /\ result' = pass
    /\ handles' = handles \ {"pdfplumber"}
    /\ pc' = IF FallBack(pass) THEN "mu_open" ELSE "done"
    /\ log' = Append(log, Ev("_extract_with_pdfplumber", 0, pass, FALSE))
    /\ UNCHANGED <<tool, args, doc, pass, idx, todo, cur, raised>>

\* fitz.open(pdf_path)
MuOpen ==
    /\ tool = "pdf" /\ pc = "mu_open"
    /\ \E ok \in BOOLEAN :
         /\ IF ok
            THEN /\ pass' = [PdfResult("pymupdf") EXCEPT !.total_pages = Len(doc)]
                 /\ handles' = handles \cup {"fitz"}
                 /\ idx' = 1
                 /\ pc' = "mu_pages"
                 /\ UNCHANGED result
            ELSE /\ PdfCatch("fitz.open")
                 /\ UNCHANGED <<pass, handles, idx>>
         /\ log' = Append(log, Ev("fitz.open", 0, <<>>, ~ok))
    /\ UNCHANGED <<tool, args, doc, todo, cur, raised>>

\* The native text _extract_with_pymupdf reads from a page
MuNativeText(page, handle_multi_column) ==
    IF handle_multi_column THEN ExtractTextWithColumnAwareness(page) ELSE page.mutext

\* One page of _extract_with_pymupdf
MuPage ==
    /\ tool = "pdf" /\ pc = "mu_pages" /\ idx <= Len(doc)
    /\ LET page == doc[idx]
           text == MuNativeText(page, args.handle_multi_column)
       IN
       \E native \in BOOLEAN, ocr \in OcrOutcomes :
         IF ~native
         THEN \* load_page / get_text raises: doc.close() is not reached, the
              \* document is closed only if the interpreter finalises the
              \* object before extract_text_from_pdf returns
              /\ PdfCatch("get_text")
              /\ log' = Append(log, Ev("get_text", idx, <<>>, TRUE))
              /\ handles' \in {handles, handles \ {"fitz"}}
              /\ UNCHANGED <<pass, idx>>
         ELSE LET tables == ExtractTablesFromPymupdfPage(page)
              IN /\ pass' = PageIteration(pass, idx, text, args.use_ocr, ocr,
                                          args.preserve_tables, tables)
                 /\ log' = log \o PageLog(idx, "get_text",
                                          OcrTried(text, args.use_ocr), ocr, FALSE, TRUE)
                 /\ idx' = idx + 1
                 /\ UNCHANGED <<result, pc, handles>>
    /\ UNCHANGED <<tool, args, doc, todo, cur, raised>>

\* _extract_with_pymupdf closes the document and returns
MuReturn ==
    /\ tool = "pdf" /\ pc = "mu_pages" /\ idx > Len(doc)
    /\ result' = pass
    /\ handles' = handles \ {"fitz"}
    /\ pc' = "done"
    /\ log' = Append(log, Ev("_extract_with_pymupdf", 0, pass, FALSE))
    /\ UNCHANGED <<tool, args, doc, pass, idx, todo, cur, raised>>

PdfNext ==
    \/ PdfCall
    \/ PlumberOpen
    \/ PlumberPage
    \/ PlumberReturn
    \/ MuOpen
    \/ MuPage
    \/ MuReturn

----------------------------------------------------------------------------
(* The presentations *)

\* The optional libraries of ppt_extractor.py; the model is of an installation
\* where all three were importable.
OCR_AVAILABLE == TRUE
PANDAS_AVAILABLE == TRUE
OPENAI_AVAILABLE == TRUE

\* A shape of a slide.  kind is the branch of _extract_slide_content it takes:
\* "text" (has_text_frame), "table", "picture", "group", "other" (no branch),
\* "bad" (reading its shape_type raises).
Shape(kind, paras, rows, sub) == [kind |-> kind, paras |-> paras, rows |-> rows, sub |-> sub]
TextShape(paras) == Shape("text", paras, <<>>, <<>>)
TableShape(rows) == Shape("table", <<>>, rows, <<>>)
PictureShape == Shape("picture", <<>>, <<>>, <<>>)
GroupShape(sub) == Shape("group", <<>>, <<>>, sub)
OtherShape == Shape("other", <<>>, <<>>, <<>>)
BadShape == Shape("bad", <<>>, <<>>, <<>>)

\* A slide, and the placeholder of a slide the run has not read yet: the
\* content of a slide is chosen when prs.slides[slide_idx] first reads it.
Slide(shapes, has_notes, notes) ==
    [read |-> TRUE, shapes |-> shapes, has_notes |-> has_notes, notes |-> notes]
Unread == [read |-> FALSE, shapes |-> <<>>, has_notes |-> FALSE, notes |-> <<>>]

SlideKinds ==
    { Slide(<<>>, FALSE, <<>>),
      Slide(<<PictureShape>>, FALSE, <<>>),
      Slide(<<TextShape(<<<<"a">>>>), PictureShape,
              GroupShape(<<TextShape(<<<<"g">>>>), PictureShape>>)>>, TRUE, <<"n">>),
      Slide(<<TableShape(<<<<<<"c", " ">>>>>>),
              TableShape(<<<<<<"d">>, <<>>>>>>)>>, FALSE, <<>>),
      Slide(<<BadShape, OtherShape, TextShape(<<<<" ">>, <<"b", " ">>>>)>>, TRUE, <<>>) }

\* The presentations of n slides, none read yet
Deck(n) == [i \in 1..n |-> Unread]

\* A slide that contains only images
ImageOnlySlide(s) ==
    /\ s.shapes # <<>>
    /\ \A i \in 1..Len(s.shapes) : s.shapes[i].kind = "picture"

\* What the chat-completion endpoint can return as message content
LlmReplies == {<<"f", "\n">>}
LlmOutcomes == {Raises} \cup {Returns(t) : t \in LlmReplies}

----------------------------------------------------------------------------
(* extract_text_from_pptx *)

\* The slide_numbers argument: None, or a list
NoList == [given |-> FALSE, list |-> <<>>]
List(l) == [given |-> TRUE, list |-> l]

PptxResult(total) ==
    [file_path |-> "in.pptx", slides |-> <<>>, total_slides |-> total,
     slides_processed |-> 0, tables_found |-> 0, errors |-> <<>>]

SlideData(n) ==
    [slide_number |-> n, text |-> <<>>, tables |-> <<>>, images |-> <<>>,
     notes |-> <<>>, extraction_method |-> "native", ocr_used |-> FALSE,
     llm_formatted |-> FALSE]

\* f"Slide {slide_num}: {str(e)}"
SlideErrorMsg(n) == <<"Slide", n>>

RECURSIVE ValidSlideNumbersBelowTotal(_, _)
\* ValidSlideNumbers with the upper end of the range excluded
ValidSlideNumbersBelowTotal(l, total) ==
    IF l = <<>> THEN <<>>
    ELSE IF 1 <= Head(l) /\ Head(l) < total
         THEN <<Head(l)>> \o ValidSlideNumbersBelowTotal(Tail(l), total)
         ELSE ValidSlideNumbersBelowTotal(Tail(l), total)

RECURSIVE ValidSlideNumbers(_, _)
\* [sn for sn in slide_numbers if 1 <= sn <= total_slides]
ValidSlideNumbers(l, total) ==
    IF l = <<>> THEN <<>>
    ELSE IF 1 <= Head(l) /\ Head(l) <= total
         THEN <<Head(l)>> \o ValidSlideNumbers(Tail(l), total)
         ELSE ValidSlideNumbers(Tail(l), total)

\* slides_to_process: the valid requested numbers, or all slides when the
\* request is None, empty, or holds no valid number
SlidesToProcess(req, total) ==
    LET valid == IF req.given /\ req.list # <<>>
                 THEN ValidSlideNumbers(req.list, total) ELSE <<>>
    IN IF valid # <<>> THEN valid ELSE [i \in 1..total |-> i]

RECURSIVE StripAll(_)
StripAll(s) == IF s = <<>> THEN <<>> ELSE <<Strip(Head(s))>> \o StripAll(Tail(s))

\* _extract_text_from_text_frame
ExtractTextFromTextFrame(paras) ==
    Join(<<"\n">>, SelectSeqOf(StripAll(paras), <<>>))

RECURSIVE GroupTexts(_)
GroupTexts(sub) ==
    IF sub = <<>> THEN <<>>
    ELSE IF Head(sub).kind = "text" /\ ExtractTextFromTextFrame(Head(sub).paras) # <<>>
         THEN <<ExtractTextFromTextFrame(Head(sub).paras)>> \o GroupTexts(Tail(sub))
         ELSE GroupTexts(Tail(sub))

\* _extract_text_from_group
ExtractTextFromGroup(sub) == Join(<<"\n">>, GroupTexts(sub))

RECURSIVE StripRows(_)
StripRows(rows) ==
    IF rows = <<>> THEN <<>> ELSE <<StripAll(Head(rows))>> \o StripRows(Tail(rows))

\* _extract_table_from_shape: the rows of stripped cell texts, or None
ExtractTableFromShape(shape, ok) ==
    IF ~PANDAS_AVAILABLE \/ ~ok THEN <<>> ELSE StripRows(shape.rows)

RECURSIVE FormattedParts(_, _)
FormattedParts(parts, i) ==
    IF i > Len(parts) THEN <<>>
    ELSE (IF Strip(parts[i]) # <<>>
          THEN <<parts[i]>> \o (IF i < Len(parts) THEN << <<>> >> ELSE <<>>)
          ELSE <<>>)
         \o FormattedParts(parts, i + 1)

\* FormatTextParts without the empty line between two parts
FormatTextPartsSingleNewline(parts) == Join(<<"\n">>, parts)

\* _format_text_parts
FormatTextParts(parts) ==
    IF parts = <<>> THEN <<>> ELSE Join(<<"\n">>, FormattedParts(parts, 1))

\* LlmApplies without the test that a client was configured
LlmAppliesWithoutClient(use_llm_formatting, client) ==
    use_llm_formatting /\ OPENAI_AVAILABLE

\* Whether _extract_slide_content sends the slide's text to the endpoint
LlmApplies(use_llm_formatting, client) ==
    use_llm_formatting /\ OPENAI_AVAILABLE /\ client

\* _format_text_with_llm: the stripped reply; the text itself when the call fails
FormatTextWithLlm(text, client, llm) ==
    IF ~OPENAI_AVAILABLE \/ ~client THEN text
    ELSE IF llm.raise THEN text
    ELSE Strip(llm.val)

\* Lines 280-288 of _extract_slide_content: the formatted text is stored and the
\* flag set whenever _format_text_with_llm returns, and it always returns.
ApplyLlm(sd, use_llm_formatting, client, llm) ==
    IF LlmApplies(use_llm_formatting, client)
    THEN [sd EXCEPT !.text = FormatTextWithLlm(sd.text, client, llm),
                    !.llm_formatted = TRUE]
    ELSE sd

\* The slide loop goes on to slide i of slides_to_process, or the call returns
LoopOrReturn(i, slides) == IF i <= Len(slides) THEN "slides" ELSE "done"

PptxInit ==
    /\ tool = "pptx"
    /\ pc = "start"
    /\ doc \in {Deck(n) : n \in 0..MaxSlides}
    /\ args \in [exists : BOOLEAN, use_ocr : BOOLEAN, use_llm_formatting : BOOLEAN,
                 client : BOOLEAN,
                 slide_numbers : {NoList} \cup {List(l) : l \in SeqsUpTo(0..MaxSlides, MaxRequest)}]
    /\ result = PptxResult(0)
    /\ PdfIdle

\* extract_text_from_pptx, to the start of the slide loop.  A missing or
\* unreadable file raises out of the call.
PptxCall ==
    /\ tool = "pptx" /\ pc = "start"
    /\ \E ok \in BOOLEAN :
         IF ~args.exists \/ ~ok
         THEN /\ raised' = IF ~args.exists THEN "FileNotFoundError" ELSE "PackageNotFoundError"
              /\ pc' = "raised"
              /\ UNCHANGED <<result, todo, idx>>
         ELSE /\ result' = PptxResult(Len(doc))
              /\ todo' = SlidesToProcess(args.slide_numbers, Len(doc))
              /\ idx' = 1
              /\ pc' = LoopOrReturn(1, todo')
              /\ UNCHANGED raised
    /\ UNCHANGED <<tool, args, doc, pass, cur, handles, log>>

\* The start of _extract_slide_content for the next slide: slide_data and the
\* notes.  An exception here is caught by the slide loop.
SlideBegin ==
    /\ tool = "pptx" /\ pc = "slides" /\ idx <= Len(todo)
    /\ LET n == todo[idx] IN
       \/ \E slide \in (IF doc[n].read THEN {doc[n]} ELSE SlideKinds) :
            /\ doc' = [doc EXCEPT ![n] = slide]
            /\ cur' = [slide_data |-> [SlideData(n) EXCEPT
                            !.notes = IF slide.has_notes THEN slide.notes ELSE @],
                       text_parts |-> <<>>, tables |-> <<>>, images |-> <<>>, k |-> 1]
            /\ pc' = "shapes"
            /\ log' = Append(log, Ev("slide", n, <<>>, FALSE))
            /\ UNCHANGED <<result, idx>>
       \/ /\ result' = [result EXCEPT !.errors = Append(@, SlideErrorMsg(n))]
          /\ log' = Append(log, Ev("slide", n, <<>>, TRUE))
          /\ idx' = idx + 1
          /\ pc' = LoopOrReturn(idx + 1, todo)
          /\ UNCHANGED <<doc, cur>>
    /\ UNCHANGED <<tool, args, pass, todo, handles, raised>>

AtShape(kind) ==
    /\ tool = "pptx" /\ pc = "shapes" /\ cur.k <= Len(doc[todo[idx]].shapes)
    /\ doc[todo[idx]].shapes[cur.k].kind = kind

CurShape == doc[todo[idx]].shapes[cur.k]

NextShape(c) == [c EXCEPT !.k = @ + 1]

\* A shape with a text frame
ShapeTextFrame ==
    /\ AtShape("text")
    /\ LET text == ExtractTextFromTextFrame(CurShape.paras)
       IN cur' = NextShape(IF text # <<>>
                           THEN [cur EXCEPT !.text_parts = Append(@, text)] ELSE cur)
    /\ UNCHANGED <<tool, pc, args, doc, result, pass, idx, todo, handles, raised, log>>

\* A table shape
ShapeTable ==
    /\ AtShape("table")
    /\ \E ok \in BOOLEAN :
         LET table_data == ExtractTableFromShape(CurShape, ok)
         IN /\ cur' = NextShape(IF table_data # <<>>
                                THEN [cur EXCEPT !.tables = Append(@, table_data)] ELSE cur)
            /\ log' = Append(log, Ev("table", todo[idx], <<>>, ~ok))
    /\ UNCHANGED <<tool, pc, args, doc, result, pass, idx, todo, handles, raised>>

\* PerformOcrOnImage with the failure reported in the text it returns
PerformOcrOnImageReportsFailure(ocr) ==
    IF ~OCR_AVAILABLE THEN <<>> ELSE IF ocr.raise THEN <<"OCR error">> ELSE ocr.val

\* _perform_ocr_on_image: the recognised text, the empty string on failure
PerformOcrOnImage(ocr) ==
    IF ~OCR_AVAILABLE THEN <<>> ELSE IF ocr.raise THEN <<>> ELSE ocr.val

\* The picture branch, given the image blob was read
PictureBranch(c, sd, ocr) ==
    LET ocr_text == PerformOcrOnImage(ocr)
        c1 == [c EXCEPT !.images = Append(@, "blob")]
    IN IF ocr_text # <<>>
       THEN [c1 EXCEPT !.text_parts = Append(@, <<"[Image OCR]: ">> \o ocr_text),
                       !.slide_data.ocr_used = TRUE]
       ELSE c1

\* A picture shape
ShapePicture ==
    /\ AtShape("picture")
    /\ IF args.use_ocr /\ OCR_AVAILABLE
       THEN \E blob \in BOOLEAN, ocr \in OcrOutcomes :
              IF blob
              THEN /\ cur' = NextShape(PictureBranch(cur, cur.slide_data, ocr))
                   /\ log' = log \o <<Ev("image", todo[idx], <<>>, FALSE),
                                       Ev("ocr", todo[idx], ocr.val, ocr.raise)>>
              ELSE /\ cur' = NextShape(cur)
                   /\ log' = Append(log, Ev("image", todo[idx], <<>>, TRUE))
       ELSE /\ cur' = NextShape(cur)
            /\ UNCHANGED log
    /\ UNCHANGED <<tool, pc, args, doc, result, pass, idx, todo, handles, raised>>

\* A group of shapes
ShapeGroup ==
    /\ AtShape("group")
    /\ LET text == ExtractTextFromGroup(CurShape.sub)
       IN cur' = NextShape(IF text # <<>>
                           THEN [cur EXCEPT !.text_parts = Append(@, text)] ELSE cur)
    /\ UNCHANGED <<tool, pc, args, doc, result, pass, idx, todo, handles, raised, log>>

\* A shape no branch handles
ShapeOther ==
    /\ AtShape("other")
    /\ cur' = NextShape(cur)
    /\ UNCHANGED <<tool, pc, args, doc, result, pass, idx, todo, handles, raised, log>>

\* A shape whose inspection raises: caught and logged by the shape loop
ShapeBad ==
    /\ AtShape("bad")
    /\ cur' = NextShape(cur)
    /\ log' = Append(log, Ev("shape", todo[idx], <<>>, TRUE))
    /\ UNCHANGED <<tool, pc, args, doc, result, pass, idx, todo, handles, raised>>

\* The slide record _extract_slide_content returns
FinishSlide(c, use_llm_formatting, client, llm) ==
    ApplyLlm([c.slide_data EXCEPT !.text = FormatTextParts(c.text_parts),
                                  !.tables = c.tables,
                                  !.images = c.images],
             use_llm_formatting, client, llm)

\* The end of _extract_slide_content and the bookkeeping of the slide loop
SlideEnd ==
    /\ tool = "pptx" /\ pc = "shapes" /\ cur.k > Len(doc[todo[idx]].shapes)
    /\ \E llm \in LlmOutcomes :
         LET called == LlmApplies(args.use_llm_formatting, args.client)
             sd == FinishSlide(cur, args.use_llm_formatting, args.client, llm)
         IN /\ result' = [result EXCEPT !.slides = Append(@, sd),
                                        !.slides_processed = @ + 1,
                                        !.tables_found = @ + Len(sd.tables)]
            /\ log' = IF called
                      THEN Append(log, Ev("llm", todo[idx], FormatTextParts(cur.text_parts),
                                          llm.raise))
                      ELSE log
    /\ cur' = <<>>
    /\ idx' = idx + 1
    /\ pc' = LoopOrReturn(idx + 1, todo)
    /\ UNCHANGED <<tool, args, doc, pass, todo, handles, raised>>

PptxNext ==
    \/ PptxCall
    \/ SlideBegin
    \/ ShapeTextFrame
    \/ ShapeTable
    \/ ShapePicture
    \/ ShapeGroup
    \/ ShapeOther
    \/ ShapeBad
    \/ SlideEnd

----------------------------------------------------------------------------

Init == PdfInit \/ PptxInit

Next == PdfNext \/ PptxNext

Spec == Init /\ [][Next]_vars

----------------------------------------------------------------------------
(* Properties of the two extraction pipelines, checked under Spec *)

Returned(t) == tool = t /\ pc = "done"

\* The log entries of one kind, in order
LogOf(what) == SelectSeq(log, LAMBDA e : e.ev = what)

Called(what) == LogOf(what) # <<>>

\* What the pass `what` returned (it is called at most once in a run)
ReturnOf(what) == LogOf(what)[1].arg

\* The native text of the page a record of the returned result was made from
NativeTextOfPage(r) ==
    IF result.extraction_method = "pymupdf"
    THEN MuNativeText(doc[r.page_number], args.handle_multi_column)
    ELSE doc[r.page_number].text

RECURSIVE NativeParts(_)
\* The texts of the text frames and groups of a slide, in shape order
NativeParts(shapes) ==
    IF shapes = <<>> THEN <<>>
    ELSE LET sh == Head(shapes)
             t == IF sh.kind = "text" THEN ExtractTextFromTextFrame(sh.paras)
                  ELSE IF sh.kind = "group" THEN ExtractTextFromGroup(sh.sub)
                  ELSE <<>>
         IN (IF t # <<>> THEN <<t>> ELSE <<>>) \o NativeParts(Tail(shapes))

NativeTextOfSlide(slide) == FormatTextParts(NativeParts(slide.shapes))

HasPicture(slide) == \E i \in 1..Len(slide.shapes) : slide.shapes[i].kind = "picture"

\* C1: in the PowerPoint pipeline, with LLM formatting enabled and a client
\* configured, a slide whose language-model call failed has, in the returned
\* result, the text assembled before formatting and llm_formatted = false.
C1_LlmFailureKeepsTextAndFlag ==
    (Returned("pptx") /\ LlmApplies(args.use_llm_formatting, args.client)) =>
        \A i \in 1..Len(result.slides) :
            LogOf("llm")[i].failed =>
                /\ result.slides[i].text = LogOf("llm")[i].arg
                /\ ~result.slides[i].llm_formatted

\* Every picture of slide n was read and every OCR call for unit n returned text
OcrSucceeded(n) ==
    \A k \in 1..Len(log) : log[k].unit = n =>
        /\ log[k].ev = "image" => ~log[k].failed
        /\ log[k].ev = "ocr" => (~log[k].failed /\ log[k].arg # <<>>)

\* C2: with OCR enabled, the record of every page or slide that contains only
\* images has ocr_used = true and extraction_method = "ocr" in the returned
\* result.  Stated for the units whose OCR calls all returned text, the case most
\* favourable to the claim.
C2_ImageOnlyUnitUsesOcr ==
    /\ (Returned("pdf") /\ args.use_ocr) =>
          \A i \in 1..Len(result.pages) :
              LET n == result.pages[i].page_number IN
              (ImageOnlyPage(doc[n]) /\ OcrSucceeded(n)) =>
                  /\ result.pages[i].ocr_used
                  /\ result.pages[i].extraction_method = "ocr"
    /\ (Returned("pptx") /\ args.use_ocr) =>
          \A i \in 1..Len(result.slides) :
              LET n == result.slides[i].slide_number IN
              (ImageOnlySlide(doc[n]) /\ OcrSucceeded(n)) =>
                  /\ result.slides[i].ocr_used
                  /\ result.slides[i].extraction_method = "ocr"

\* The PDF half of C2 alone
C2_PdfHalf ==
    (Returned("pdf") /\ args.use_ocr) =>
        \A i \in 1..Len(result.pages) :
            LET n == result.pages[i].page_number IN
            (ImageOnlyPage(doc[n]) /\ OcrSucceeded(n)) =>
                /\ result.pages[i].ocr_used
                /\ result.pages[i].extraction_method = "ocr"

\* C3 as stated: the record of every page or slide with non-empty native text
\* holds the native text and ocr_used = false, whatever else the unit contains
\* and whether or not OCR is enabled.  Non-empty is read as not blank, the reading
\* most favourable to the claim.
C3_NativeTextAlwaysWins ==
    /\ Returned("pdf") =>
          \A i \in 1..Len(result.pages) :
              LET r == result.pages[i] IN
              Strip(NativeTextOfPage(r)) # <<>> =>
                  r.text = NativeTextOfPage(r) /\ ~r.ocr_used
    /\ Returned("pptx") =>
          \A i \in 1..Len(result.slides) :
              LET r == result.slides[i]
                  native == NativeTextOfSlide(doc[r.slide_number])
              IN native # <<>> => r.text = native /\ ~r.ocr_used

\* C3 as amended: a PDF page whose native text is not blank (non-empty after
\* strip) is recorded with that text, method "native" and ocr_used = false,
\* whether or not OCR is enabled.  A slide with non-empty native text has
\* ocr_used = false when OCR is disabled or the slide holds no picture, and then
\* its text is the native text unless the LLM formatting is applied.
C3_NativeTextWins ==
    /\ Returned("pdf") =>
          \A i \in 1..Len(result.pages) :
              LET r == result.pages[i] IN
              Strip(NativeTextOfPage(r)) # <<>> =>
                  /\ r.text = NativeTextOfPage(r)
                  /\ r.extraction_method = "native"
                  /\ ~r.ocr_used
    /\ Returned("pptx") =>
          \A i \in 1..Len(result.slides) :
              LET r == result.slides[i]
                  slide == doc[r.slide_number]
                  native == NativeTextOfSlide(slide)
              IN (native # <<>> /\ (~args.use_ocr \/ ~HasPicture(slide))) =>
                    /\ ~r.ocr_used
                    /\ ~LlmApplies(args.use_llm_formatting, args.client) => r.text = native

\* A page with native text and images was extracted with OCR enabled
C3_Witness ==
    /\ Returned("pdf") /\ args.use_ocr
    /\ \E i \in 1..Len(result.pages) :
          /\ doc[result.pages[i].page_number].images
          /\ Strip(NativeTextOfPage(result.pages[i])) # <<>>

\* The number of entries of a sequence that satisfy a test
Count(s, Test(_)) == Len(SelectSeq(s, Test))

\* C4: with OCR disabled, for a page or slide that contains only images the OCR
\* engine is never invoked, the record's text is empty with ocr_used = false, and
\* the error list gets no entry on account of the unit having no text.
C4_ImageOnlyUnitWithoutOcr ==
    /\ (Returned("pdf") /\ ~args.use_ocr) =>
          \A n \in 1..Len(doc) : ImageOnlyPage(doc[n]) =>
              /\ \A k \in 1..Len(log) : ~(log[k].ev = "ocr" /\ log[k].unit = n)
              /\ \A i \in 1..Len(result.pages) : result.pages[i].page_number = n =>
                    result.pages[i].text = <<>> /\ ~result.pages[i].ocr_used
              /\ \A k \in 1..Len(result.errors) : result.errors[k] # OcrFailedMsg(n)
    /\ (Returned("pptx") /\ ~args.use_ocr) =>
          \A n \in 1..Len(doc) : (doc[n].read /\ ImageOnlySlide(doc[n])) =>
              /\ \A k \in 1..Len(log) : ~(log[k].ev = "ocr" /\ log[k].unit = n)
              /\ \A i \in 1..Len(result.slides) : result.slides[i].slide_number = n =>
                    result.slides[i].text = <<>> /\ ~result.slides[i].ocr_used
              /\ Count(result.errors, LAMBDA e : e = SlideErrorMsg(n))
                   = Count(log, LAMBDA e : e.ev = "slide" /\ e.unit = n /\ e.failed)

RECURSIVE SumOfTables(_)
SumOfTables(records) ==
    IF records = <<>> THEN 0
    ELSE Len(Head(records).tables) + SumOfTables(Tail(records))

Records == IF tool = "pdf" THEN result.pages ELSE result.slides

\* C5: in every returned result, tables_found is the sum over the records of the
\* number of tables of the record, and no stored table is empty.
C5_TablesFoundIsSum ==
    (Returned("pdf") \/ Returned("pptx")) =>
        /\ result.tables_found = SumOfTables(Records)
        /\ \A i \in 1..Len(Records) : \A j \in 1..Len(Records[i].tables) :
              Records[i].tables[j] # EmptyTable

\* A result with a table counted, from a page of which an empty table was discarded
C5_Witness ==
    /\ Returned("pdf") /\ result.tables_found >= 1
    /\ \E i \in 1..Len(result.pages) :
          /\ result.pages[i].tables # <<>>
          /\ Len(result.pages[i].tables) < Len(doc[result.pages[i].page_number].tables)

\* The slide numbers the slide loop took up, in order
Processed == [i \in 1..Len(LogOf("slide")) |-> LogOf("slide")[i].unit]

RequestedInRange ==
    IF args.slide_numbers.given
    THEN SelectSeq(args.slide_numbers.list, LAMBDA sn : sn \in 1..Len(doc))
    ELSE <<>>

\* C6: extract_text_from_pptx processes the requested slide numbers that lie in
\* 1..total_slides, in the order requested; when that leaves none (no list, an
\* empty list, or no valid number) it processes 1..total_slides in ascending order.
C6_SlideSelection ==
    Returned("pptx") =>
        IF RequestedInRange # <<>>
        THEN Processed = RequestedInRange
        ELSE Processed = [i \in 1..Len(doc) |-> i]

\* A request naming a number out of range before slide 2 had the number dropped
\* and slide 2 alone processed
C6_Witness ==
    /\ Returned("pptx") /\ Len(doc) = 2
    /\ args.slide_numbers.list = <<0, 2>>
    /\ Processed = <<2>>

\* The primary pass returned no page with text
NoText(res) == \A i \in 1..Len(res.pages) : Strip(res.pages[i].text) = <<>>

\* result is res with one more error message
WithOneMoreError(res) ==
    /\ result.errors # <<>>
    /\ [result EXCEPT !.errors = SubSeq(@, 1, Len(@) - 1)] = res

----------------------------------------------------------------------------
(* PDFOCRExtractor.format_tables_as_text *)

MaxRows == 2
MaxCols == 2
MaxTables == 2

Digits == <<"0", "1", "2", "3", "4", "5", "6", "7", "8", "9">>

RECURSIVE IntDigits(_)
\* The decimal digits of a natural number, most significant first
IntDigits(n) == IF n < 10 THEN <<n>> ELSE IntDigits(n \div 10) \o <<n % 10>>

\* str() of an int given by its decimal digits
Str(digits) == [k \in 1..Len(digits) |-> Digits[digits[k] + 1]]

Spaces(n) == [k \in 1..n |-> " "]

\* str.ljust(width)
Ljust(s, width) == IF width > Len(s) THEN s \o Spaces(width - Len(s)) ELSE s

Max(a, b) == IF a >= b THEN a ELSE b

\* str(cell): None prints as the four characters of its name
StrOfCell(cell) == IF cell.isNone THEN <<"N", "o", "n", "e">> ELSE cell.s

\* `cell` as a condition: None and "" are false
Truthy(cell) == ~cell.isNone /\ cell.s # <<>>

\* str(cell) if cell else ""
CellStr(cell) == IF Truthy(cell) THEN StrOfCell(cell) ELSE <<>>

\* The cells a table is made of, its rows and the tables given to the formatter
Cells == {NoneCell, StrCell(<<>>), StrCell(<<"a", "b">>)}
Rows == SeqsUpTo(Cells, MaxCols)
Tables == SeqsUpTo(Rows, MaxRows)
TableSamples == {EmptyTable, Table1, Table2}
TableLists == {<<t>> : t \in Tables} \cup SeqsUpTo(TableSamples, MaxTables)

\* f"\n--- Table {i} ---"
TableHeader(i) ==
    <<"\n", "-", "-", "-", " ", "T", "a", "b", "l", "e", " ">>
        \o Str(IntDigits(i)) \o <<" ", "-", "-", "-">>

EmptyTableLine == <<"(", "E", "m", "p", "t", "y", " ", "t", "a", "b", "l", "e", ")">>

ColumnSeparator == <<" ", "|", " ">>

RECURSIVE RowWidths(_, _, _)
\* The inner loop of the width pass: the cells of `row` from col_idx on
RowWidths(max_widths, row, col_idx) ==
    IF col_idx > Len(row) THEN max_widths
    ELSE LET grown == IF col_idx > Len(max_widths) THEN Append(max_widths, 0)
                      ELSE max_widths
             len == Len(StrOfCell(row[col_idx]))
         IN RowWidths([grown EXCEPT ![col_idx] = Max(@, len)], row, col_idx + 1)

RECURSIVE WidthsFrom(_, _)
WidthsFrom(max_widths, rows) ==
    IF rows = <<>> THEN max_widths
    ELSE WidthsFrom(RowWidths(max_widths, Head(rows), 1), Tail(rows))

\* MaxWidths with the widths taken from the first row only
MaxWidthsOfFirstRow(table) == WidthsFrom(<<>>, <<Head(table)>>)

\* The width pass over a non-empty table
MaxWidths(table) == WidthsFrom(<<>>, table)

\* max_widths[col_idx] is an IndexError for some cell of the table
IndexOutOfRange(table, max_widths) ==
    \E r \in 1..Len(table) : Len(table[r]) > Len(max_widths)

\* formatted_row of a row
FormattedRow(row, max_widths) ==
    [c \in 1..Len(row) |-> Ljust(CellStr(row[c]), max_widths[c])]

\* The formatted_row of every row of a table
FormattedRows(table, max_widths) ==
    [r \in 1..Len(table) |-> FormattedRow(table[r], max_widths)]

RowLines(rows) == [r \in 1..Len(rows) |-> Join(ColumnSeparator, rows[r])]

TablesIdle ==
    /\ doc = <<>>
    /\ pass = <<>>
    /\ todo = <<>>
    /\ handles = {}
    /\ log = <<>>
    /\ raised = "none"

TablesInit ==
    /\ tool = "format_tables"
    /\ pc = "start"
    /\ args \in [tables : TableLists]
    /\ result = [formatted_tables |-> <<>>, text |-> <<>>]
    /\ idx = 0
    /\ cur = <<>>
    /\ TablesIdle

\* if not tables: return ""; otherwise enter the loop over the tables
FormatCall ==
    /\ tool = "format_tables" /\ pc = "start"
    /\ IF args.tables = <<>>
       THEN pc' = "done" /\ idx' = idx
       ELSE pc' = "table" /\ idx' = 1
    /\ UNCHANGED <<tool, args, doc, result, pass, todo, cur, handles, raised, log>>

\* One iteration of the loop over the tables.  cur keeps, per table, the
\* max_widths and the formatted_row lists of the iteration.
FormatTable ==
    /\ tool = "format_tables" /\ pc = "table"
    /\ LET table == args.tables[idx]
           headed == Append(result.formatted_tables, TableHeader(idx))
           max_widths == IF table = <<>> THEN <<>> ELSE MaxWidths(table)
           rows == FormattedRows(table, max_widths)
           more == IF idx < Len(args.tables) THEN "table" ELSE "join"
       IN IF table = <<>>
          THEN /\ result' = [result EXCEPT !.formatted_tables =
                                Append(headed, EmptyTableLine)]
               /\ cur' = Append(cur, [max_widths |-> <<>>, rows |-> <<>>])
               /\ raised' = raised
               /\ pc' = more
          ELSE IF IndexOutOfRange(table, max_widths)
          THEN /\ result' = [result EXCEPT !.formatted_tables = headed]
               /\ cur' = cur
               /\ raised' = "IndexError"
               /\ pc' = "done"
          ELSE /\ result' = [result EXCEPT !.formatted_tables =
                                headed \o RowLines(rows)]
               /\ cur' = Append(cur, [max_widths |-> max_widths, rows |-> rows])
               /\ raised' = raised
               /\ pc' = more
    /\ idx' = idx + 1
    /\ UNCHANGED <<tool, args, doc, pass, todo, handles, log>>

\* return "\n".join(formatted_tables)
FormatReturn ==
    /\ tool = "format_tables" /\ pc = "join"
    /\ result' = [result EXCEPT !.text = Join(<<"\n">>, result.formatted_tables)]
    /\ pc' = "done"
    /\ UNCHANGED <<tool, args, doc, pass, idx, todo, cur, handles, raised, log>>

TablesNext == FormatCall \/ FormatTable \/ FormatReturn

SpecTables == TablesInit /\ [][TablesNext]_vars

----------------------------------------------------------------------------
(* Properties of format_tables_as_text, checked under SpecTables *)

\* C7: format_tables_as_text returns without an error for every list of tables,
\* those with rows of unequal length included (every row fits the computed width
\* list), and a cell that is None or empty is rendered as the empty string padded
\* to the width computed for its column.
C7_RaggedRowsAndMissingCells ==
    Returned("format_tables") =>
        /\ raised = "none"
        /\ Len(cur) = Len(args.tables)
        /\ \A t \in 1..Len(cur) :
              LET table == args.tables[t] IN
              /\ Len(cur[t].rows) = Len(table)
              /\ \A r \in 1..Len(table) :
                    /\ Len(table[r]) <= Len(cur[t].max_widths)
                    /\ Len(cur[t].rows[r]) = Len(table[r])
                    /\ \A c \in 1..Len(table[r]) :
                          ~Truthy(table[r][c]) =>
                              cur[t].rows[r][c] = Spaces(cur[t].max_widths[c])

\* A table whose second row is longer than its first, with a None cell in a
\* column that also holds a string, was formatted
C7_Witness ==
    /\ Returned("format_tables")
    /\ \E t \in 1..Len(args.tables) :
          LET table == args.tables[t] IN
          /\ Len(table) = 2 /\ Len(table[1]) = 1 /\ Len(table[2]) = 2
          /\ table[1][1] = NoneCell
          /\ table[2][1] = StrCell(<<"a", "b">>)
          /\ cur[t].rows[1][1] = Spaces(cur[t].max_widths[1])
          /\ raised = "none"

\* The longest string rendered in column c of a table, a missing cell counting 0
RenderedWidth(table, c) ==
    LET lens == {Len(CellStr(table[r][c])) : r \in {q \in 1..Len(table) : c <= Len(table[q])}}
    IN CHOOSE m \in lens : \A l \in lens : l <= m

\* C8: for every table and column c, each rendered cell of column c is
\* left-justified to the maximum length of the strings rendered in column c (a
\* missing cell counting as length 0), and the cells of a row are joined by " | ".
C8_ColumnWidthIsLongestRendered ==
    (Returned("format_tables") /\ raised = "none") =>
        \A t \in 1..Len(cur) :
            LET table == args.tables[t] IN
            \A r \in 1..Len(table) :
                /\ \A c \in 1..Len(table[r]) :
                      cur[t].rows[r][c] =
                          Ljust(CellStr(table[r][c]), RenderedWidth(table, c))
                /\ \E k \in 1..Len(result.formatted_tables) :
                      result.formatted_tables[k] = Join(<<" ", "|", " ">>, cur[t].rows[r])

\* C8 for the tables that hold no None cell
C8_WithoutNoneCells ==
    (Returned("format_tables") /\ raised = "none") =>
        \A t \in 1..Len(cur) :
            LET table == args.tables[t] IN
            (\A r \in 1..Len(table) : \A c \in 1..Len(table[r]) : ~table[r][c].isNone) =>
                \A r \in 1..Len(table) : \A c \in 1..Len(table[r]) :
                    cur[t].rows[r][c] =
                        Ljust(CellStr(table[r][c]), RenderedWidth(table, c))

----------------------------------------------------------------------------
(* PowerPointExtractor.save_tables_to_excel: the name of a table's worksheet *)

MaxNumber == 3
MaxDigits == 11

\* Excel sheet name limit is 31 characters
SheetNameLimit == 31

\* invalid_chars
InvalidChars == <<"\\", "/", "?", "*", "[", "]", ":", "'">>

\* A Python int is unbounded: it is kept as its decimal digits
Nines(len) == [k \in 1..len |-> 9]
Numbers == {IntDigits(k) : k \in 1..MaxNumber} \cup {Nines(len) : len \in 1..MaxDigits}

\* slide['slide_number'] of a result dict: the int the extractor stores, or what
\* a caller that builds the dict itself puts there, here a str
IntValue(digits) == [isInt |-> TRUE, digits |-> digits, s |-> <<>>]
StrValue(s) == [isInt |-> FALSE, digits |-> <<>>, s |-> s]
SlideLabel ==
    StrValue(<<"[", "1", "]", ":", "2", "/", "3", "?", "4", "*", "5", "'", "6", "\\">>)
SlideNumbers == {IntValue(d) : d \in Numbers} \cup {SlideLabel}

\* {value} in an f-string
Format(v) == IF v.isInt THEN Str(v.digits) ELSE v.s

\* f"Slide{slide['slide_number']}_Table{i}"
RawSheetName(slide_number, i) ==
    <<"S", "l", "i", "d", "e">> \o Format(slide_number)
        \o <<"_", "T", "a", "b", "l", "e">> \o Format(i)

\* str.replace(char, by) for a one-character `char`
Replace(s, char, by) == [k \in 1..Len(s) |-> IF s[k] = char THEN by ELSE s[k]]

\* Truncate with the cut one character short of the limit
TruncateBelowLimit(name) ==
    IF Len(name) > SheetNameLimit THEN SubSeq(name, 1, SheetNameLimit - 1) ELSE name

\* if len(sheet_name) > 31: sheet_name = sheet_name[:31]
Truncate(name) ==
    IF Len(name) > SheetNameLimit THEN SubSeq(name, 1, SheetNameLimit) ELSE name

SheetInit ==
    /\ tool = "sheet_name"
    /\ pc = "start"
    /\ args \in [slide_number : SlideNumbers, i : {IntValue(d) : d \in Numbers}]
    /\ result = <<>>
    /\ idx = 0
    /\ cur = <<>>
    /\ TablesIdle

\* sheet_name = f"Slide{slide['slide_number']}_Table{i}"
SheetFormat ==
    /\ tool = "sheet_name" /\ pc = "start"
    /\ result' = RawSheetName(args.slide_number, args.i)
    /\ idx' = 1
    /\ pc' = "replace"
    /\ UNCHANGED <<tool, args, doc, pass, todo, cur, handles, raised, log>>

\* One iteration of `for char in invalid_chars`
SheetReplace ==
    /\ tool = "sheet_name" /\ pc = "replace"
    /\ result' = Replace(result, InvalidChars[idx], "_")
    /\ idx' = idx + 1
    /\ pc' = IF idx < Len(InvalidChars) THEN "replace" ELSE "truncate"
    /\ UNCHANGED <<tool, args, doc, pass, todo, cur, handles, raised, log>>

\* The length check; the name is then handed to df.to_excel
SheetTruncate ==
    /\ tool = "sheet_name" /\ pc = "truncate"
    /\ result' = Truncate(result)
    /\ pc' = "done"
    /\ UNCHANGED <<tool, args, doc, pass, idx, todo, cur, handles, raised, log>>

SheetNext == SheetFormat \/ SheetReplace \/ SheetTruncate

SpecSheet == SheetInit /\ [][SheetNext]_vars

----------------------------------------------------------------------------
(* Properties of the worksheet name, checked under SpecSheet *)

Disallowed == {InvalidChars[k] : k \in 1..Len(InvalidChars)}

\* C9: the worksheet name is 'Slide{n}_Table{i}' with each of \ / ? * [ ] : '
\* replaced by an underscore and then cut: a name longer than 31 characters
\* becomes its first 31 characters, a shorter one keeps its length, and the final
\* name holds no disallowed character.
C9_SheetName ==
    Returned("sheet_name") =>
        LET raw == RawSheetName(args.slide_number, args.i) IN
        /\ Len(raw) > 31 => Len(result) = 31
        /\ Len(raw) <= 31 => Len(result) = Len(raw)
        /\ \A k \in 1..Len(result) :
              /\ result[k] \notin Disallowed
              /\ result[k] = IF raw[k] \in Disallowed THEN "_" ELSE raw[k]

\* A name of more than 31 characters that held disallowed characters was cut
C9_Witness ==
    /\ Returned("sheet_name")
    /\ Len(RawSheetName(args.slide_number, args.i)) > 31
    /\ \E k \in 1..31 : RawSheetName(args.slide_number, args.i)[k] \in Disallowed
    /\ Len(result) = 31

----------------------------------------------------------------------------
(* Properties of the error handling of the pipelines, checked under Spec *)

\* A page of the running pass raised: the pass ended there with an exception
PassRaisedOnPage ==
    \E k \in 1..Len(log) :
        log[k].failed /\ log[k].ev \in {"extract_text", "get_text"} /\ log[k].unit >= 1

\* C11: when a PDF backend pass raises after it has processed some pages,
\* extract_text_from_pdf does not raise, the exception's message is in the
\* returned result's error list, and the page records and the table count the
\* pass had produced before the exception are in the returned result.
C11_PartialResultKept ==
    (Returned("pdf") /\ PassRaisedOnPage /\ pass.pages # <<>>) =>
        /\ raised = "none"
        /\ result.errors # <<>>
        /\ result.errors[Len(result.errors)] \in {ExcMsg("extract_text"), ExcMsg("get_text")}
        /\ Len(result.pages) >= Len(pass.pages)
        /\ \A i \in 1..Len(pass.pages) : result.pages[i] = pass.pages[i]
        /\ result.tables_found = pass.tables_found

\* What does hold of such a call: it returns, with the message appended
C11_ReturnsWithMessage ==
    (Returned("pdf") /\ PassRaisedOnPage) =>
        /\ raised = "none"
        /\ result.errors # <<>>
        /\ result.errors[Len(result.errors)] \in {ExcMsg("extract_text"), ExcMsg("get_text")}

----------------------------------------------------------------------------
(* The report writers: save_extracted_content and save_text_content.  A report *)
(* is the sequence of the f.write calls made, each a tuple of what is written. *)

RECURSIVE FormattedTables(_, _)
\* formatted_tables of format_tables_as_text, from table i of the list on
FormattedTables(tables, i) ==
    IF i > Len(tables) THEN <<>>
    ELSE LET table == tables[i]
             lines == IF table = <<>> THEN <<EmptyTableLine>>
                      ELSE RowLines(FormattedRows(table, MaxWidths(table)))
         IN <<TableHeader(i)>> \o lines \o FormattedTables(tables, i + 1)

\* format_tables_as_text as a function of its argument
FormatTablesAsText(tables) ==
    IF tables = <<>> THEN <<>> ELSE Join(<<"\n">>, FormattedTables(tables, 1))

\* The error summary both writers end with
ErrorWrites(errors) ==
    IF errors = <<>> THEN <<>>
    ELSE << <<"ERRORS:">> >> \o [k \in 1..Len(errors) |-> <<"- ", errors[k]>>]

\* The header block of save_extracted_content
PdfHeaderWrites(res) ==
    << <<"PDF Text Extraction Results">>,
       <<"File: ", res.file_path>>,
       <<"Extraction Method: ", res.extraction_method>>,
       <<"Total Pages: ", res.total_pages>>,
       <<"Tables Found: ", res.tables_found>>,
       <<"=", 50>> >>

\* The section of one page record
PageWrites(page) ==
    << <<"PAGE ", page.page_number>>, <<"-", 30>> >>
    \o (IF page.text # <<>>
        THEN << <<"TEXT CONTENT:">>, <<"text", page.text>>, <<"\n\n">> >> ELSE <<>>)
    \o (IF page.tables # <<>>
        THEN << <<"TABLES:">>, <<"tables", FormatTablesAsText(page.tables)>>, <<"\n\n">> >>
        ELSE <<>>)

RECURSIVE PageSections(_)
\* The sections of the page records, in the order of the result
PageSections(pages) ==
    IF pages = <<>> THEN <<>>
    ELSE PageWrites(Head(pages)) \o PageSections(Tail(pages))

\* What save_extracted_content writes
PdfReport(res) ==
    PdfHeaderWrites(res) \o PageSections(res.pages) \o ErrorWrites(res.errors)

\* The header block of save_text_content
PptxHeaderWrites(res) ==
    << <<"PowerPoint Text Extraction Results">>,
       <<"File: ", res.file_path>>,
       <<"Total Slides: ", res.total_slides>>,
       <<"Slides Processed: ", res.slides_processed>>,
       <<"Tables Found: ", res.tables_found>>,
       <<"=", 50>> >>

\* SlideWrites with the notes block written before the text block
SlideWritesNotesFirst(slide) ==
    << <<"SLIDE ", slide.slide_number>>, <<"-", 30>> >>
    \o (IF slide.notes # <<>>
        THEN << <<"NOTES:">>, <<"notes", slide.notes>>, <<"\n\n">> >> ELSE <<>>)
    \o (IF slide.text # <<>>
        THEN << <<"TEXT CONTENT:">>, <<"text", slide.text>>, <<"\n\n">> >> ELSE <<>>)
    \o (IF slide.images # <<>>
        THEN << <<"IMAGES FOUND: ", Len(slide.images)>> >> ELSE <<>>)

\* The section of one slide record
SlideWrites(slide) ==
    << <<"SLIDE ", slide.slide_number>>, <<"-", 30>> >>
    \o (IF slide.text # <<>>
        THEN << <<"TEXT CONTENT:">>, <<"text", slide.text>>, <<"\n\n">> >> ELSE <<>>)
    \o (IF slide.notes # <<>>
        THEN << <<"NOTES:">>, <<"notes", slide.notes>>, <<"\n\n">> >> ELSE <<>>)
    \o (IF slide.images # <<>>
        THEN << <<"IMAGES FOUND: ", Len(slide.images)>> >> ELSE <<>>)

RECURSIVE SlideSections(_)
\* The sections of the slide records, in the order of the result
SlideSections(slides) ==
    IF slides = <<>> THEN <<>>
    ELSE SlideWrites(Head(slides)) \o SlideSections(Tail(slides))

\* What save_text_content writes
PptxReport(res) ==
    PptxHeaderWrites(res) \o SlideSections(res.slides) \o ErrorWrites(res.errors)

----------------------------------------------------------------------------
(* save_tables_to_excel as a function of the result *)

RECURSIVE ReplaceInvalid(_, _)
\* for char in invalid_chars: sheet_name = sheet_name.replace(char, '_'), from
\* the k-th character of the list on
ReplaceInvalid(name, k) ==
    IF k > Len(InvalidChars) THEN name
    ELSE ReplaceInvalid(Replace(name, InvalidChars[k], "_"), k + 1)

\* The worksheet name of table i of the record of slide n
SheetName(n, i) ==
    Truncate(ReplaceInvalid(RawSheetName(IntValue(IntDigits(n)), IntValue(IntDigits(i))), 1))

\* The df.to_excel calls for the tables of one slide record, in order
SlideSheets(slide) ==
    [i \in 1..Len(slide.tables) |->
        [sheet_name |-> SheetName(slide.slide_number, i), table |-> slide.tables[i]]]

RECURSIVE SheetCalls(_)
\* The df.to_excel calls of save_tables_to_excel, in order
SheetCalls(slides) ==
    IF slides = <<>> THEN <<>>
    ELSE SlideSheets(Head(slides)) \o SheetCalls(Tail(slides))

----------------------------------------------------------------------------
(* The command-line tools: main() of either file *)

MaxCliSlides == 1
MaxCliRequest == 2

PdfCliInit ==
    /\ tool = "pdf"
    /\ pc = "main"
    /\ args \in [exists : BOOLEAN, use_ocr : BOOLEAN, preserve_tables : BOOLEAN,
                 handle_multi_column : BOOLEAN]
    /\ doc \in PdfDocs
    /\ result = PdfResult("none")
    /\ PdfIdle

\* --slides takes one or more numbers; --interactive asks for them
PptxCliInit ==
    /\ tool = "pptx"
    /\ pc = "main"
    /\ doc \in {Deck(n) : n \in 0..MaxCliSlides}
    /\ args \in [exists : BOOLEAN, use_ocr : BOOLEAN, use_llm_formatting : BOOLEAN,
                 client : BOOLEAN, interactive : BOOLEAN,
                 slide_numbers : {NoList} \cup
                     {List(l) : l \in SeqsUpTo(0..MaxCliSlides, MaxCliRequest) \ {<<>>}}]
    /\ result = PptxResult(0)
    /\ PdfIdle

\* sys.exit(1) in the except clause of main; a main that runs to its end exits 0
Exit(code) == Ev("exit", 0, <<code>>, FALSE)

\* main of pdf_ocr_extractor.py up to the call of extract_text_from_pdf
PdfMain ==
    /\ tool = "pdf" /\ pc = "main"
    /\ pc' = "start"
    /\ UNCHANGED <<tool, args, doc, result, pass, idx, todo, cur, handles, raised, log>>

\* prompt_slide_selection: it returns None (choice 1), or the valid numbers of
\* what was typed once there is at least one (choice 2)
PromptSlideSelection(typed, total) ==
    IF typed = NoList THEN NoList ELSE List(ValidSlideNumbers(typed.list, total))

\* main of ppt_extractor.py up to the call of extract_text_from_pptx
PptxMain ==
    /\ tool = "pptx" /\ pc = "main"
    /\ IF args.interactive /\ args.slide_numbers = NoList
       THEN \E ok \in BOOLEAN :
              IF ~args.exists \/ ~ok
              THEN \* Presentation(args.pptx_path) raises
                   /\ raised' = "PackageNotFoundError"
                   /\ pc' = "raised"
                   /\ args' = args
              ELSE \E typed \in {NoList} \cup
                        {List(l) : l \in SeqsUpTo(0..MaxCliSlides, MaxCliRequest) \ {<<>>}} :
                     /\ \/ typed = NoList
                        \/ ValidSlideNumbers(typed.list, Len(doc)) # <<>>
                     /\ args' = [args EXCEPT
                                   !.slide_numbers = PromptSlideSelection(typed, Len(doc))]
                     /\ pc' = "start"
                     /\ raised' = raised
       ELSE /\ pc' = "start"
            /\ UNCHANGED <<args, raised>>
    /\ UNCHANGED <<tool, doc, result, pass, idx, todo, cur, handles, log>>

\* The except clause of either main: the exception is logged, sys.exit(1)
MainFail ==
    /\ pc = "raised"
    /\ pc' = "exited"
    /\ log' = Append(log, Exit(1))
    /\ UNCHANGED <<tool, args, doc, result, pass, idx, todo, cur, handles, raised>>

\* main of pdf_ocr_extractor.py after the extraction returned: the report is
\* written and the summary printed; a report that cannot be opened ends in the
\* except clause
PdfMainSave ==
    /\ tool = "pdf" /\ pc = "done"
    /\ \E ok \in BOOLEAN :
         log' = log \o <<Ev("save_extracted_content", 0,
                            IF ok THEN PdfReport(result) ELSE <<>>, ~ok),
                         Exit(IF ok THEN 0 ELSE 1)>>
    /\ pc' = "exited"
    /\ UNCHANGED <<tool, args, doc, result, pass, idx, todo, cur, handles, raised>>

\* main of ppt_extractor.py after the extraction returned: the text report
PptxMainSaveText ==
    /\ tool = "pptx" /\ pc = "done"
    /\ \E ok \in BOOLEAN :
         IF ok
         THEN /\ log' = Append(log, Ev("save_text_content", 0, PptxReport(result), FALSE))
              /\ pc' = "saved_text"
         ELSE /\ log' = log \o <<Ev("save_text_content", 0, <<>>, TRUE), Exit(1)>>
              /\ pc' = "exited"
    /\ UNCHANGED <<tool, args, doc, result, pass, idx, todo, cur, handles, raised>>

\* The df.to_excel calls as log entries
SheetLog(calls) ==
    [k \in 1..Len(calls) |-> Ev("to_excel", k, calls[k].sheet_name, FALSE)]

\* main of ppt_extractor.py to its end: the tables are exported if there are
\* any.  save_tables_to_excel catches what the workbook writer raises: the first
\* `done` calls were made when it does.
PptxMainSaveTables ==
    /\ tool = "pptx" /\ pc = "saved_text"
    /\ IF result.tables_found > 0 /\ PANDAS_AVAILABLE
       THEN LET calls == SheetCalls(result.slides) IN
            \E done \in 0..Len(calls), ok \in BOOLEAN :
              /\ ok => done = Len(calls)
              /\ log' = log \o SheetLog(SubSeq(calls, 1, done))
                            \o <<Ev("save_tables_to_excel", 0, <<>>, ~ok), Exit(0)>>
       ELSE log' = Append(log, Exit(0))
    /\ pc' = "exited"
    /\ UNCHANGED <<tool, args, doc, result, pass, idx, todo, cur, handles, raised>>

CliInit == PdfCliInit \/ PptxCliInit

CliNext ==
    \/ PdfMain
    \/ PptxMain
    \/ Next
    \/ MainFail
    \/ PdfMainSave
    \/ PptxMainSaveText
    \/ PptxMainSaveTables

SpecCli == CliInit /\ [][CliNext]_vars

----------------------------------------------------------------------------
(* Properties of the command-line tools, checked under SpecCli *)

Exited == pc = "exited"

\* The exit code of the process
ExitCode == log[Len(log)].arg[1]

\* A report file was written
ReportWritten ==
    \E k \in 1..Len(log) :
        log[k].ev \in {"save_extracted_content", "save_text_content"} /\ ~log[k].failed

\* The input file does not exist, or it exists and the library that is asked
\* first cannot open it
FileLevelFailure ==
    \/ ~args.exists
    \/ tool = "pdf" /\ \E k \in 1..Len(log) : log[k].ev = "pdfplumber.open" /\ log[k].failed
    \/ tool = "pptx" /\ raised = "PackageNotFoundError"

\* C12: in both command-line tools a file-level failure (the input file does not
\* exist, or it exists but the document cannot be opened) aborts the run: no
\* report file is written and the process exits with code 1.
C12_FileLevelFailureAborts ==
    (Exited /\ FileLevelFailure) => (~ReportWritten /\ ExitCode = 1)

\* C12 for a missing input file, and for the PowerPoint tool
C12_MissingFileOrPptx ==
    (Exited /\ (~args.exists \/ (tool = "pptx" /\ raised = "PackageNotFoundError"))) =>
        (~ReportWritten /\ ExitCode = 1)

----------------------------------------------------------------------------
(* More properties of the error handling of the pipelines, checked under Spec *)

\* The unit-level failures of the run: a failed OCR call, table extraction,
\* image read or shape inspection
UnitFailures ==
    SelectSeq(log, LAMBDA e :
        e.failed /\ e.ev \in {"ocr", "extract_tables", "table", "image", "shape"})

\* The PDF run returned the result of its primary pass, no pass having raised
PrimaryResultReturned ==
    Returned("pdf") /\ ~Called("fitz.open") /\ Called("_extract_with_pdfplumber")

\* The units after a unit-level failure were still processed
C13_ProcessingContinues ==
    /\ PrimaryResultReturned =>
          /\ Len(result.pages) = Len(doc)
          /\ \A i \in 1..Len(doc) : result.pages[i].page_number = i
    /\ Returned("pptx") =>
          /\ Len(LogOf("slide")) = Len(todo)
          /\ \A i \in 1..Len(result.slides) :
                LET s == result.slides[i] IN
                Len(s.tables) + Len(s.images) <= Len(doc[s.slide_number].shapes)

\* C13: every unit-level failure (OCR failure on a page, slide or embedded image,
\* table-extraction failure, shape-extraction failure) adds an entry to the
\* returned result's error list, and the remaining shapes, pages and slides are
\* still processed.  For a PDF it is stated of the runs that return the primary
\* pass's result, where no entry is lost with a pass.
C13_UnitFailuresInErrorList ==
    ((PrimaryResultReturned \/ Returned("pptx")) /\ UnitFailures # <<>>) =>
        /\ Len(result.errors) >= Len(UnitFailures)
        /\ C13_ProcessingContinues

\* What the error list does hold: an entry for each PDF page whose OCR call
\* raised, and an entry for each slide whose extraction raised as a whole
C13_RecordedFailures ==
    /\ PrimaryResultReturned =>
          Len(result.errors) = Len(SelectSeq(log, LAMBDA e : e.ev = "ocr" /\ e.failed))
    /\ Returned("pptx") =>
          Len(result.errors) = Len(SelectSeq(log, LAMBDA e : e.ev = "slide" /\ e.failed))

\* The result accumulator of the running call: the `result` local of the backend
\* pass while a PDF pass is running, the `result` of the entry point otherwise
Accumulator ==
    IF tool = "pdf" /\ pc \in {"plumber_pages", "mu_pages"} THEN pass ELSE result

AccumulatedRecords == IF tool = "pdf" THEN Accumulator.pages ELSE Accumulator.slides

AccumulatedErrors == Accumulator.errors

IsPrefix(s, t) == Len(s) <= Len(t) /\ \A i \in 1..Len(s) : s[i] = t[i]

\* C14: the result accumulator is append-only within one extraction call: a page
\* or slide record or an error string, once added, is still there after every
\* later step, up to the result the call returns.  The fresh start of the
\* secondary PDF pass, which replaces the primary pass's result as a whole, is
\* not counted as a removal.
C14_AccumulatorAppendOnly ==
    [][pc # "mu_open" =>
          /\ IsPrefix(AccumulatedRecords, AccumulatedRecords')
          /\ IsPrefix(AccumulatedErrors, AccumulatedErrors')]_vars

\* C14 for the PowerPoint pipeline, and for the PDF passes that do not raise
C14_AppendOnlyWithoutException ==
    [][(pc # "mu_open" /\ (tool = "pdf" => pc' # "done" \/ result' = pass)) =>
          /\ IsPrefix(AccumulatedRecords, AccumulatedRecords')
          /\ IsPrefix(AccumulatedErrors, AccumulatedErrors')]_vars

\* The step made an OCR call that failed
OcrFailsInStep ==
    /\ Len(log') > Len(log)
    /\ \E k \in (Len(log) + 1)..Len(log') : log'[k].ev = "ocr" /\ log'[k].failed

\* No call other than OCR calls failed in the run
OnlyOcrFailed == \A k \in 1..Len(log) : log[k].failed => log[k].ev = "ocr"

\* C15: an OCR failure is never fatal in either pipeline.  The step on which the
\* OCR engine fails on a page or an embedded picture leaves the unit with the
\* empty string as OCR text and goes on to the next page or shape; the call still
\* returns a result, and every later page, shape and slide is processed.
C15_OcrFailureNotFatal ==
    /\ [][OcrFailsInStep =>
            /\ raised' = "none" /\ pc' = pc
            /\ tool = "pdf" =>
                  /\ idx' = idx + 1
                  /\ Len(pass'.pages) = idx
                  /\ IsPrefix(pass.pages, pass'.pages)
                  /\ pass'.pages[idx].page_number = idx
                  /\ pass'.pages[idx].text = <<>>
                  /\ ~pass'.pages[idx].ocr_used
            /\ tool = "pptx" =>
                  /\ cur'.k = cur.k + 1
                  /\ cur'.text_parts = cur.text_parts
                  /\ cur'.slide_data = cur.slide_data]_vars
    /\ []((pc = "done" /\ OnlyOcrFailed) =>
            /\ raised = "none"
            /\ tool = "pdf" => /\ Len(result.pages) = Len(doc)
                               /\ \A i \in 1..Len(doc) : result.pages[i].page_number = i
            /\ tool = "pptx" => /\ Len(result.slides) = Len(todo)
                                /\ \A i \in 1..Len(todo) :
                                      result.slides[i].slide_number = todo[i])

\* The OCR engine failed on page 1 of a two-page PDF, nothing else failed, and
\* both pages are in the returned result
C15_Witness ==
    /\ Returned("pdf") /\ OnlyOcrFailed
    /\ \E k \in 1..Len(log) : log[k].ev = "ocr" /\ log[k].failed /\ log[k].unit = 1
    /\ Len(result.pages) = 2

----------------------------------------------------------------------------
(* Properties of the LLM formatting of slides, checked under Spec *)

\* LLM formatting is enabled and a client was configured
LlmConfigured == args.use_llm_formatting /\ args.client

\* The step appended a slide record to the result
SlideRecorded == tool = "pptx" /\ Len(result'.slides) = Len(result.slides) + 1

\* C16: during extract_text_from_pptx the chat-completion endpoint is called at
\* most once per processed slide, whether the call succeeds or fails, and not at
\* all for a slide when LLM formatting is disabled or no client was configured;
\* the slide's text is then the unformatted text and llm_formatted is false.
C16_OneLlmCallPerSlide ==
    /\ [](tool = "pptx" =>
            /\ Len(LogOf("llm")) = IF LlmConfigured THEN Len(result.slides) ELSE 0
            /\ \A i \in 1..Len(LogOf("llm")) :
                  LogOf("llm")[i].unit = result.slides[i].slide_number)
    /\ [][SlideRecorded =>
            LET r == result'.slides[Len(result'.slides)]
                unformatted == FormatTextParts(cur.text_parts)
            IN IF LlmConfigured
               THEN /\ Len(log') = Len(log) + 1
                    /\ log'[Len(log')].ev = "llm"
                    /\ log'[Len(log')].arg = unformatted
               ELSE /\ log' = log
                    /\ r.text = unformatted
                    /\ ~r.llm_formatted]_vars

\* Two slides were processed with LLM formatting on, the first call failed and
\* was not repeated
C16_Witness ==
    /\ Returned("pptx") /\ LlmConfigured
    /\ Len(result.slides) = 2
    /\ Len(LogOf("llm")) = 2
    /\ LogOf("llm")[1].failed /\ ~LogOf("llm")[2].failed

----------------------------------------------------------------------------
(* The constructors of the two extractors: _setup_tesseract and _setup_openai.
   A configuration value is None (the empty tuple) or a one-element tuple
   holding a string; the config module is absent (import raises ImportError)
   or a record naming the attributes it has. *)

NoValue == <<>>

\* Python truthiness of an Optional[str]
NonEmpty(v) == v # NoValue /\ v[1] # ""

\* common_paths of _setup_tesseract, the same list in both tools
CommonPaths ==
    << "C:\\Program Files\\Tesseract-OCR\\tesseract.exe",
       "C:\\Program Files (x86)\\Tesseract-OCR\\tesseract.exe",
       "/usr/bin/tesseract",
       "/usr/local/bin/tesseract",
       "/opt/homebrew/bin/tesseract" >>

\* pytesseract.pytesseract.tesseract_cmd before any constructor ran
DefaultTesseractCmd == "tesseract"

\* The values an argument, an environment variable or an attribute can have
Optional(s) == {NoValue, <<"">>, <<s>>}

\* `import config`: ImportError, or a module with some of the two attributes
NoConfig == [imported |-> FALSE, attrs |-> {}, TESSERACT_PATH |-> NoValue,
             OPENAI_API_KEY |-> NoValue]

Configs ==
    {NoConfig} \cup
    { c \in [imported : {TRUE},
             attrs : SUBSET {"TESSERACT_PATH", "OPENAI_API_KEY"},
             TESSERACT_PATH : Optional("/cfg/tesseract"),
             OPENAI_API_KEY : Optional("key-config")] :
        /\ ("TESSERACT_PATH" \in c.attrs) = (c.TESSERACT_PATH # NoValue)
        /\ ("OPENAI_API_KEY" \in c.attrs) = (c.OPENAI_API_KEY # NoValue) }

\* hasattr(config, name) and config.<name>, after a successful import
ConfigHas(config, name) ==
    /\ config.imported
    /\ name \in config.attrs
    /\ NonEmpty(IF name = "TESSERACT_PATH" THEN config.TESSERACT_PATH
                ELSE config.OPENAI_API_KEY)

\* The `for path in common_paths` loop from index k: the first path for which
\* os.path.exists holds, NoValue when the loop ends without one
RECURSIVE AutoDetect(_, _)
AutoDetect(exists, k) ==
    IF k > Len(CommonPaths) THEN NoValue
    ELSE IF k \in exists THEN <<CommonPaths[k]>>
    ELSE AutoDetect(exists, k + 1)

\* tesseract_cmd after the branch `if tesseract_path: ... else: auto-detect`
TesseractCmd(tesseract_path, exists) ==
    IF NonEmpty(tesseract_path) THEN tesseract_path[1]
    ELSE IF AutoDetect(exists, 1) # NoValue THEN AutoDetect(exists, 1)[1]
    ELSE DefaultTesseractCmd

\* PDFOCRExtractor._setup_tesseract
PdfTesseractCmd(a) == TesseractCmd(a.tesseract_path, a.exists)

\* PowerPointExtractor._setup_tesseract: tesseract_path after the config lookup
PptxTesseractPath(a) ==
    IF NonEmpty(a.tesseract_path) THEN a.tesseract_path
    ELSE IF ConfigHas(a.config, "TESSERACT_PATH") THEN a.config.TESSERACT_PATH
    ELSE a.tesseract_path

PptxTesseractCmd(a) ==
    IF ~OCR_AVAILABLE THEN DefaultTesseractCmd
    ELSE TesseractCmd(PptxTesseractPath(a), a.exists)

\* ApiKey with the environment variable asked before the explicit argument
ApiKeyEnvironFirst(a) ==
    IF NonEmpty(a.environ) THEN a.environ
    ELSE IF NonEmpty(a.openai_api_key) THEN a.openai_api_key
    ELSE IF ConfigHas(a.config, "OPENAI_API_KEY") THEN a.config.OPENAI_API_KEY
    ELSE NoValue

\* PowerPointExtractor._setup_openai: api_key
ApiKey(a) ==
    IF NonEmpty(a.openai_api_key) THEN a.openai_api_key
    ELSE IF NonEmpty(a.environ) THEN a.environ
    ELSE IF ConfigHas(a.config, "OPENAI_API_KEY") THEN a.config.OPENAI_API_KEY
    ELSE NoValue

\* self.openai_client: None, or the client made with the key
OpenaiClient(a) ==
    IF OPENAI_AVAILABLE /\ NonEmpty(ApiKey(a)) THEN ApiKey(a) ELSE NoValue

ConfigInit ==
    /\ tool \in {"pdf_init", "pptx_init"}
    /\ pc = "construct"
    /\ args \in [tesseract_path : Optional("/arg/tesseract"),
                 openai_api_key : Optional("key-arg"),
                 environ : Optional("key-env"),
                 config : Configs,
                 exists : SUBSET (1..Len(CommonPaths))]
    /\ tool = "pdf_init" => args.openai_api_key = NoValue /\ args.environ = NoValue
    /\ result = [tesseract_cmd |-> DefaultTesseractCmd, openai_client |-> NoValue]
    /\ idx = 0
    /\ cur = <<>>
    /\ TablesIdle

\* PDFOCRExtractor.__init__
PdfSetupTesseract ==
    /\ tool = "pdf_init" /\ pc = "construct"
    /\ result' = [result EXCEPT !.tesseract_cmd = PdfTesseractCmd(args)]
    /\ pc' = "constructed"
    /\ UNCHANGED <<tool, args, doc, pass, idx, todo, cur, handles, raised, log>>

\* PowerPointExtractor.__init__, first call
PptxSetupTesseract ==
    /\ tool = "pptx_init" /\ pc = "construct"
    /\ result' = [result EXCEPT !.tesseract_cmd = PptxTesseractCmd(args)]
    /\ pc' = "setup_openai"
    /\ UNCHANGED <<tool, args, doc, pass, idx, todo, cur, handles, raised, log>>

\* PowerPointExtractor.__init__, second call
SetupOpenai ==
    /\ tool = "pptx_init" /\ pc = "setup_openai"
    /\ result' = [result EXCEPT !.openai_client = OpenaiClient(args)]
    /\ pc' = "constructed"
    /\ UNCHANGED <<tool, args, doc, pass, idx, todo, cur, handles, raised, log>>

ConfigNext == PdfSetupTesseract \/ PptxSetupTesseract \/ SetupOpenai

SpecConfig == ConfigInit /\ [][ConfigNext]_vars

----------------------------------------------------------------------------
(* Properties of the constructors, checked under SpecConfig *)

Constructed == tool \in {"pdf_init", "pptx_init"} /\ pc = "constructed"

\* The first non-empty provider of the OCR-engine path in the order explicit
\* argument, config module, first existing common path
PathByPriority ==
    IF NonEmpty(args.tesseract_path) THEN args.tesseract_path
    ELSE IF ConfigHas(args.config, "TESSERACT_PATH") THEN args.config.TESSERACT_PATH
    ELSE AutoDetect(args.exists, 1)

\* The first non-empty provider of the credential in the order explicit
\* argument, environment variable, config module
KeyByPriority ==
    IF NonEmpty(args.openai_api_key) THEN args.openai_api_key
    ELSE IF NonEmpty(args.environ) THEN args.environ
    ELSE IF ConfigHas(args.config, "OPENAI_API_KEY") THEN args.config.OPENAI_API_KEY
    ELSE NoValue

\* C17: the OCR-engine path of both tools is the explicit argument, else the
\* config module's value, else the first existing common path, and the
\* credential is the explicit argument, else the environment variable, else the
\* config module's value; a lower provider never overrides a non-empty higher one.
C17_ProvidersInPriorityOrder ==
    Constructed =>
        /\ PathByPriority # NoValue => result.tesseract_cmd = PathByPriority[1]
        /\ tool = "pptx_init" => result.openai_client = KeyByPriority

\* C17 as the constructors have it: the PowerPoint tool takes the OCR-engine
\* path from the explicit argument, else the config module, else the first
\* existing common path, and the credential from the explicit argument, else
\* the environment variable, else the config module; the PDF tool takes the path
\* from the explicit argument, else the first existing common path, and does not
\* consult the config module.  With no provider the path keeps its default and
\* there is no client.
C17_ProvidersPerTool ==
    Constructed =>
        IF tool = "pptx_init"
        THEN /\ result.tesseract_cmd =
                   IF PathByPriority # NoValue THEN PathByPriority[1]
                   ELSE DefaultTesseractCmd
             /\ result.openai_client = KeyByPriority
        ELSE /\ result.tesseract_cmd =
                   IF NonEmpty(args.tesseract_path) THEN args.tesseract_path[1]
                   ELSE IF AutoDetect(args.exists, 1) # NoValue
                        THEN AutoDetect(args.exists, 1)[1]
                   ELSE DefaultTesseractCmd
             /\ result.openai_client = NoValue

\* The PowerPoint extractor was constructed with an empty path argument, a path
\* in the config module and an installed engine, and with a credential in the
\* argument, the environment and the config module
C17_Witness ==
    /\ Constructed /\ tool = "pptx_init"
    /\ args.tesseract_path = <<"">>
    /\ ConfigHas(args.config, "TESSERACT_PATH")
    /\ args.exists # {}
    /\ result.tesseract_cmd = "/cfg/tesseract"
    /\ NonEmpty(args.openai_api_key) /\ NonEmpty(args.environ)
    /\ ConfigHas(args.config, "OPENAI_API_KEY")
    /\ result.openai_client = <<"key-arg">>

----------------------------------------------------------------------------
(* Properties of the text reports, checked under SpecCli *)

\* The writes of the report file of the run
Report ==
    SelectSeq(log, LAMBDA e :
        e.ev \in {"save_extracted_content", "save_text_content"})[1].arg

\* The run ended and its report file was written in full
ReportSaved == Exited /\ ReportWritten

\* The records of the result and the heading of their sections
Recs == IF tool = "pdf" THEN result.pages ELSE result.slides
Heading == IF tool = "pdf" THEN "PAGE " ELSE "SLIDE "
NumberOf(rec) == IF tool = "pdf" THEN rec.page_number ELSE rec.slide_number

\* The positions of the writes of report R that start with a label
Positions(R, lab) == {k \in 1..Len(R) : R[k][1] = lab}

\* The i-th of a set of positions
Nth(P, i) == CHOOSE k \in P : Cardinality({j \in P : j <= k}) = i

\* The position of a block label among the writes s..e of R, 0 if absent
BlockAt(R, s, e, lab) ==
    LET ks == {k \in s..e : R[k] = <<lab>>}
    IN IF ks = {} THEN 0 ELSE CHOOSE k \in ks : TRUE

\* The block at position k (0 if absent) is there exactly when the content is
\* non-empty, and then holds the content
BlockIffNonEmpty(R, k, kind, content) ==
    /\ (k # 0) = (content # <<>>)
    /\ k # 0 => R[k + 1] = <<kind, content>> /\ R[k + 2] = <<"\n\n">>

\* Block j is written before block k when both are there
InOrder(j, k) == (j # 0 /\ k # 0) => j < k

\* The header block comes first and ends with the rule
HeaderFirst(R) ==
    /\ Len(R) >= 6
    /\ R[2] = <<"File: ", result.file_path>>
    /\ R[5] = <<"Tables Found: ", result.tables_found>>
    /\ R[6] = <<"=", 50>>
    /\ \A k \in Positions(R, Heading) \cup Positions(R, "ERRORS:") : k > 6

\* The error list ends the report, and is there exactly when there are errors
ErrorListLast(R) ==
    LET E == Positions(R, "ERRORS:")
        n == Len(result.errors)
    IN /\ (E # {}) = (n > 0)
       /\ n > 0 =>
             /\ E = {Len(R) - n}
             /\ \A j \in 1..n : R[Len(R) - n + j] = <<"- ", result.errors[j]>>

\* Section i of R, the writes s..e, is that of record i: heading, rule, and
\* the blocks as `blocks` says of the record and the positions of its labels
Sections(R, blocks(_, _, _, _, _, _, _)) ==
    LET P == Positions(R, Heading)
        E == Positions(R, "ERRORS:")
        n == Len(Recs)
    IN /\ Cardinality(P) = n
       /\ \A i \in 1..n :
             LET s == Nth(P, i)
                 e == IF i < n THEN Nth(P, i + 1) - 1
                      ELSE IF E # {} THEN Nth(E, 1) - 1 ELSE Len(R)
                 rec == Recs[i]
             IN /\ R[s] = <<Heading, NumberOf(rec)>>
                /\ R[s + 1] = <<"-", 30>>
                /\ blocks(R, rec, e - s + 1, R[e],
                          BlockAt(R, s, e, "TEXT CONTENT:"),
                          BlockAt(R, s, e, "TABLES:"),
                          BlockAt(R, s, e, "NOTES:"))

\* The blocks of a section as the claim has them: text, tables, notes, each iff
\* non-empty and in that order, with every table of the record
ClaimedBlocks(R, rec, len, last, text, tables, notes) ==
    /\ BlockIffNonEmpty(R, text, "text", rec.text)
    /\ (tables # 0) = (rec.tables # <<>>)
    /\ tables # 0 => R[tables + 1] = <<"tables", FormatTablesAsText(rec.tables)>>
    /\ IF tool = "pdf" THEN notes = 0
       ELSE BlockIffNonEmpty(R, notes, "notes", rec.notes)
    /\ InOrder(text, tables) /\ InOrder(tables, notes) /\ InOrder(text, notes)

\* C19: the report of both writers has the header block first, then one section
\* per record in result order made of the heading, a dashed rule and the text
\* block, table block and notes block, each only when non-empty and in that
\* order, and last the error list, written iff the result has errors; every
\* table of a record appears in the record's table block.
C19_FixedOrderWithAllBlocks ==
    ReportSaved =>
        LET R == Report
        IN HeaderFirst(R) /\ Sections(R, ClaimedBlocks) /\ ErrorListLast(R)

\* The blocks of a section as the writers have them.  Page: text, tables.
\* Slide: text, notes, the line counting the images, and no table block.
WrittenBlocks(R, rec, len, last, text, tables, notes) ==
    /\ BlockIffNonEmpty(R, text, "text", rec.text)
    /\ IF tool = "pdf"
       THEN /\ notes = 0
            /\ BlockIffNonEmpty(R, tables, "tables", FormatTablesAsText(rec.tables))
            /\ InOrder(text, tables)
            /\ len = 2 + (IF text # 0 THEN 3 ELSE 0) + (IF tables # 0 THEN 3 ELSE 0)
       ELSE /\ tables = 0
            /\ BlockIffNonEmpty(R, notes, "notes", rec.notes)
            /\ InOrder(text, notes)
            /\ (rec.images # <<>>) = (last = <<"IMAGES FOUND: ", Len(rec.images)>>)
            /\ len = 2 + (IF text # 0 THEN 3 ELSE 0) + (IF notes # 0 THEN 3 ELSE 0)
                       + (IF rec.images # <<>> THEN 1 ELSE 0)

\* C19 as the writers have it: header, sections in result order, error list iff
\* there are errors.  A page section is heading, rule, text block, table block
\* with every table of the page; a slide section is heading, rule, text block,
\* notes block and the line counting the slide's images, and has no table block.
\* Each block is written only when non-empty, and nothing else is written.
C19_ReportLayout ==
    ReportSaved =>
        LET R == Report
        IN HeaderFirst(R) /\ Sections(R, WrittenBlocks) /\ ErrorListLast(R)

\* The report of a slide with text and a table was written
C19_Witness ==
    /\ tool = "pptx" /\ ReportSaved
    /\ Len(result.slides) = 1
    /\ result.slides[1].text # <<>>
    /\ result.slides[1].tables # <<>>
    /\ Len(Report) = 11


----------------------------------------------------------------------------
(* Properties of the document handles of the PDF passes, checked under Spec *)

\* C20: every document handle opened by a PDF backend pass is closed by the time
\* extract_text_from_pdf returns, on every exit path: after a pass that ran to
\* its end as well as after a pass that ended with an exception on some page.
C20_HandlesClosedOnReturn ==
    Returned("pdf") => handles = {}

\* What holds: the handle of the primary pass is closed on every exit path, and
\* the handle of the secondary pass when no page of that pass raised
C20_ClosedWithoutSecondaryException ==
    Returned("pdf") =>
        /\ "pdfplumber" \notin handles
        /\ (\A k \in 1..Len(log) : ~(log[k].ev = "get_text" /\ log[k].failed))
              => handles = {}


----------------------------------------------------------------------------
(* Properties of the table export, checked under SpecCli *)

\* The worksheet names of the df.to_excel calls made, in order
SheetsWritten == [k \in 1..Len(LogOf("to_excel")) |-> LogOf("to_excel")[k].arg]

\* save_tables_to_excel ran to its end without an exception
TablesExported ==
    /\ tool = "pptx" /\ Exited
    /\ Called("save_tables_to_excel")
    /\ ~LogOf("save_tables_to_excel")[1].failed

\* C18: save_tables_to_excel writes each table of the result to its own
\* worksheet: as many worksheets as tables_found, and no two tables under the
\* same worksheet name, also when the request lists a slide more than once.
C18_EachTableOwnWorksheet ==
    TablesExported =>
        /\ Len(SheetsWritten) = result.tables_found
        /\ \A j, k \in 1..Len(SheetsWritten) :
              j # k => SheetsWritten[j] # SheetsWritten[k]

\* What holds: one df.to_excel call per table of the result
C18_OneCallPerTable ==
    TablesExported => Len(SheetsWritten) = result.tables_found

\* What holds: the names differ when no slide number occurs twice in the result
C18_DistinctWithoutRepeats ==
    (/\ TablesExported
     /\ \A j, k \in 1..Len(result.slides) :
           j # k => result.slides[j].slide_number # result.slides[k].slide_number)
    => \A j, k \in 1..Len(SheetsWritten) :
           j # k => SheetsWritten[j] # SheetsWritten[k]


----------------------------------------------------------------------------
(* Properties of the text of a slide, checked under Spec *)

\* The image reads and OCR calls logged since the slide in hand was begun
PictureEvents ==
    LET begun == CHOOSE k \in 1..Len(log) :
                    /\ log[k].ev = "slide"
                    /\ \A j \in (k + 1)..Len(log) : log[j].ev # "slide"
    IN SelectSeq(SubSeq(log, begun + 1, Len(log)),
                 LAMBDA e : e.ev \in {"image", "ocr"})

RECURSIVE Contributions(_, _)
\* What each shape of a slide contributes to the slide's text, in the order of
\* the shape collection: the text of a text frame, the text of a group, the
\* '[Image OCR]: ' text of a picture whose OCR call (the events) returned text
Contributions(shapes, events) ==
    IF shapes = <<>> THEN <<>>
    ELSE LET shape == Head(shapes)
             rest == Tail(shapes)
         IN IF shape.kind = "text"
            THEN (IF ExtractTextFromTextFrame(shape.paras) # <<>>
                  THEN <<ExtractTextFromTextFrame(shape.paras)>> ELSE <<>>)
                 \o Contributions(rest, events)
            ELSE IF shape.kind = "group"
            THEN (IF ExtractTextFromGroup(shape.sub) # <<>>
                  THEN <<ExtractTextFromGroup(shape.sub)>> ELSE <<>>)
                 \o Contributions(rest, events)
            ELSE IF shape.kind = "picture" /\ events # <<>>
            THEN IF Head(events).failed
                 THEN Contributions(rest, Tail(events))
                 ELSE LET ocr == events[2]
                      IN (IF ~ocr.failed /\ ocr.arg # <<>>
                          THEN <<<<"[Image OCR]: ">> \o ocr.arg>> ELSE <<>>)
                         \o Contributions(rest, Tail(Tail(events)))
            ELSE Contributions(rest, events)

\* The contributions with one blank line between consecutive ones
WithBlankLines(parts) == Join(<<"\n", "\n">>, parts)

\* The contributions of the shapes of the slide in hand
SlideContributions == Contributions(doc[todo[idx]].shapes, PictureEvents)

\* C21: a slide's text is the concatenation of the per-shape contributions (text
\* frame text, '[Image OCR]: ' text of a picture, group text) in the order of
\* the shape collection, consecutive contributions separated by one blank
\* line, none dropped, duplicated or reordered.
C21_SlideTextIsConcatenation ==
    [][SlideRecorded =>
          result'.slides[Len(result'.slides)].text = WithBlankLines(SlideContributions)]_vars

\* C21 for the text _format_text_parts assembles: it is the concatenation of the
\* contributions in shape order with one blank line between them; it is the
\* text sent to the endpoint when LLM formatting applies, and the slide's text
\* when LLM formatting does not apply or the call fails; when the call returns,
\* the slide's text is the stripped reply.
C21_AssembledTextIsConcatenation ==
    [][SlideRecorded =>
          LET r == result'.slides[Len(result'.slides)]
              assembled == WithBlankLines(SlideContributions)
              call == log'[Len(log')]
          IN IF LlmConfigured
             THEN /\ call.ev = "llm" /\ call.arg = assembled
                  /\ call.failed => r.text = assembled
                  /\ ~call.failed => r.text \in {Strip(t) : t \in LlmReplies}
             ELSE r.text = assembled]_vars

\* A slide with a text frame, a picture whose OCR returned text and a group was
\* recorded with the three contributions in that order
C21_Witness ==
    /\ Returned("pptx") /\ ~LlmConfigured
    /\ \E i \in 1..Len(result.slides) :
          result.slides[i].text =
              <<"a", "\n", "\n", "[Image OCR]: ", "x", "\n", "\n", "g">>


----------------------------------------------------------------------------
(* Properties of the fallback policy of extract_text_from_pdf, checked under Spec *)

\* The primary pass returned, and its result
FirstPassReturned == Returned("pdf") /\ Called("_extract_with_pdfplumber")
FirstPass == ReturnOf("_extract_with_pdfplumber")

\* Some page of a pass's result has no text, has text, after stripping
SomePageLacksText(res) == \E i \in 1..Len(res.pages) : Strip(res.pages[i].text) = <<>>
SomePageHasText(res) == \E i \in 1..Len(res.pages) : Strip(res.pages[i].text) # <<>>

\* C22: the fallback re-runs extraction over the entire document whenever any
\* single page lacks text after the first pass, so a first-pass result in which
\* some pages do have text can be replaced by the secondary pass's.
C22_FallbackOnAnyBlankPage ==
    (FirstPassReturned /\ SomePageLacksText(FirstPass)) => Called("fitz.open")

\* C22 as the code has it: the secondary pass is started only when the first
\* pass left no page with text; a first-pass result in which some page has text
\* is returned as it is, so the only first-pass text a fallback discards is
\* text that is blank after stripping.
C22_FallbackOnlyWhenAllBlank ==
    FirstPassReturned =>
        /\ SomePageHasText(FirstPass) =>
              (~Called("fitz.open") /\ result = FirstPass)
        /\ Called("fitz.open") =>
              \A i \in 1..Len(FirstPass.pages) : Strip(FirstPass.pages[i].text) = <<>>

\* The first pass found text on the second page only, and its result was returned
C22_Witness ==
    /\ FirstPassReturned /\ Len(doc) = 2
    /\ Strip(FirstPass.pages[1].text) = <<>>
    /\ Strip(FirstPass.pages[2].text) # <<>>
    /\ result = FirstPass
    /\ ~Called("fitz.open")


----------------------------------------------------------------------------
(* Properties of the bookkeeping of extract_text_from_pptx, checked under Spec *)

\* The slides the loop took up whose processing raised, and those it recorded
SlidesRaised == SelectSeq(LogOf("slide"), LAMBDA e : e.failed)
SlidesDone == SelectSeq(LogOf("slide"), LAMBDA e : ~e.failed)

\* What holds of every returned result: slides_processed counts the records;
\* every selected slide number, repeated ones included, was taken up in order
\* and left either one record or one 'Slide n: ...' entry, in order; a slide
\* that raised did not stop the loop.
C23_Bookkeeping ==
    Returned("pptx") =>
        /\ result.slides_processed = Len(result.slides)
        /\ Processed = todo
        /\ todo = SlidesToProcess(args.slide_numbers, Len(doc))
        /\ Len(result.slides) = Len(SlidesDone)
        /\ \A i \in 1..Len(SlidesDone) : result.slides[i].slide_number = SlidesDone[i].unit
        /\ Len(result.errors) = Len(SlidesRaised)
        /\ \A i \in 1..Len(SlidesRaised) : result.errors[i] = SlideErrorMsg(SlidesRaised[i].unit)
        /\ result.slides_processed + Len(result.errors) = Len(todo)

\* C23: in every result extract_text_from_pptx returns, slides_processed is the
\* number of slide records; slides_processed plus the number of 'Slide n: ...'
\* entries is the number of selected slide numbers counted with multiplicity; a
\* slide that raises leaves no record and exactly one entry and the later slides
\* are still processed; and slides_processed never exceeds total_slides.
C23_SlidesProcessedWithinTotal ==
    Returned("pptx") =>
        /\ result.slides_processed = Len(result.slides)
        /\ result.slides_processed + Len(result.errors) = Len(todo)
        /\ Len(LogOf("slide")) = Len(todo)
        /\ Len(result.errors) = Len(SlidesRaised)
        /\ result.slides_processed <= result.total_slides


----------------------------------------------------------------------------
(* Properties of the page records of the PDF passes, checked under Spec *)

\* The step appended a page record to the result of the running pass
PageRecorded == tool = "pdf" /\ Len(pass'.pages) = Len(pass.pages) + 1

\* The native text the running pass read from the page in hand
NativeTextInHand ==
    IF pc = "plumber_pages" THEN doc[idx].text
    ELSE MuNativeText(doc[idx], args.handle_multi_column)

\* The OCR calls the step made
OcrCallsInStep ==
    SelectSeq(SubSeq(log', Len(log) + 1, Len(log')), LAMBDA e : e.ev = "ocr")

\* C24: in every page record produced by either PDF pass, ocr_used is true iff
\* extraction_method is 'ocr', and only if OCR was enabled, the page's native
\* text was empty after stripping and the OCR call returned; when the OCR call
\* raises, the record keeps text '', method 'native', ocr_used false and exactly
\* one 'OCR failed on page n' entry is added to the pass's error list.  Page
\* records are numbered 1..total_pages consecutively in order.
C24_PageRecords ==
    /\ [](tool = "pdf" =>
            /\ Len(pass.pages) <= pass.total_pages
            /\ \A i \in 1..Len(pass.pages) :
                  /\ pass.pages[i].page_number = i
                  /\ pass.pages[i].ocr_used = (pass.pages[i].extraction_method = "ocr")
            /\ \A what \in {"_extract_with_pdfplumber", "_extract_with_pymupdf"} :
                  Called(what) =>
                      /\ Len(ReturnOf(what).pages) = ReturnOf(what).total_pages
                      /\ \A i \in 1..Len(ReturnOf(what).pages) :
                            ReturnOf(what).pages[i].page_number = i)
    /\ [][PageRecorded =>
            LET r == pass'.pages[Len(pass'.pages)]
                calls == OcrCallsInStep
            IN /\ r.page_number = idx
               /\ r.ocr_used =>
                     /\ args.use_ocr
                     /\ Strip(NativeTextInHand) = <<>>
                     /\ Len(calls) = 1 /\ ~calls[1].failed
                     /\ r.text = calls[1].arg
               /\ IF calls # <<>> /\ calls[1].failed
                  THEN /\ r.text = <<>>
                       /\ r.extraction_method = "native"
                       /\ ~r.ocr_used
                       /\ pass'.errors = Append(pass.errors, OcrFailedMsg(idx))
                  ELSE pass'.errors = pass.errors]_vars

\* The OCR call raised on page 1 and returned text on page 2 of the same pass
C24_Witness ==
    /\ Returned("pdf") /\ Len(result.pages) = 2
    /\ result.errors = <<OcrFailedMsg(1)>>
    /\ ~result.pages[1].ocr_used /\ result.pages[1].text = <<>>
    /\ result.pages[2].ocr_used /\ result.pages[2].text # <<>>


----------------------------------------------------------------------------
(* Properties of the result of the secondary pass, checked under Spec *)

\* extract_text_from_pdf returned what the secondary pass returned
SecondaryResultReturned == Returned("pdf") /\ Called("_extract_with_pymupdf")

\* The OCR calls of the secondary pass that raised: those logged after fitz.open
SecondaryOcrFailures ==
    LET opened == CHOOSE k \in 1..Len(log) : log[k].ev = "fitz.open"
    IN SelectSeq(SubSeq(log, opened + 1, Len(log)),
                 LAMBDA e : e.ev = "ocr" /\ e.failed)

\* C25: whenever extract_text_from_pdf returns the secondary backend's result,
\* tables_found is 0 and every page record has an empty table list, even if
\* table extraction was requested and the primary pass had found tables; the
\* tables and the OCR error entries of the primary pass are not in the returned
\* result, whose error entries are those of the secondary pass's own OCR calls.
C25_SecondaryResultHasNoTables ==
    SecondaryResultReturned =>
        /\ result = ReturnOf("_extract_with_pymupdf")
        /\ result.tables_found = 0
        /\ \A i \in 1..Len(result.pages) : result.pages[i].tables = <<>>
        /\ Len(result.errors) = Len(SecondaryOcrFailures)
        /\ \A i \in 1..Len(result.errors) :
              result.errors[i] = OcrFailedMsg(SecondaryOcrFailures[i].unit)

\* Tables were requested, the primary pass found a table and recorded an OCR
\* failure, and the returned secondary result has neither
C25_Witness ==
    /\ SecondaryResultReturned /\ args.preserve_tables
    /\ ReturnOf("_extract_with_pdfplumber").tables_found > 0
    /\ ReturnOf("_extract_with_pdfplumber").errors # <<>>
    /\ result.tables_found = 0
    /\ result.errors = <<>>

====
